---- MODULE Spec2Model ----
(***************************************************************************)
(* Model of the discrete-time option simulation engine                     *)
(* (src/simulator/simulator.py) together with the position predicates      *)
(* (src/simulator/position.py), the portfolio aggregates                   *)
(* (src/simulator/status.py) and the chain-timeline accessor               *)
(* (src/simulator/chain.py).                                               *)
(*                                                                         *)
(* Timestamps and durations are integers (one unit = one base interval).   *)
(* Money amounts, strikes, sizes and collaterals are integers; the float   *)
(* division of _add_and_rebalance is integer division.  Prices, strikes    *)
(* and sizes that a strategy obtains from the pricing surface are drawn    *)
(* from small sets: the surface is a numeric collaborator of the engine.   *)
(***************************************************************************)
EXTENDS Integers, Sequences, FiniteSets, TLC

\* ------------------------------------------------------------------ bounds

\* Latest end timestamp a run may be given (timestamps are 0 .. MaxEnd).
MaxEnd == 3

\* ------------------------------------------------------- program constants

\* last_spot before any quote was seen (simulator.py:70).
DefaultSpot == 1

\* Strategy index used before any timing signal exists (simulator.py:81).
DefaultSignal == 0

\* ---------------------------------------------------------------- inputs

\* Timestamps at which the quote table and the timing signal may hold data.
Times == 0 .. (MaxEnd - 1)

\* Underlying prices a snapshot row may carry.
Spots == {40, 120}

\* start / time_step / starting_capital arguments of simulate(); the end
\* argument ranges from start to MaxEnd.
Starts == {0, 1}
TimeSteps == {1, 2}
Capitals == {1000}

\* Strike and premium a strategy obtains from the surface, and the
\* collateral it decides to post.
Strikes == {100}
Premiums == {5}
SellCollaterals == {<<0, 0>>, <<20, 1>>}

\* A list of configured strategies (constructor arguments of the strategy
\* classes): the first sells cash-settled puts and keeps its liquidity in
\* the primary asset, the second buys calls and keeps its liquidity in the
\* secondary asset.  Python index k is TLA+ index k + 1.
SellingAndBuying ==
    << [kind |-> "selling", side |-> "sell", option_type |-> "put",
        time_to_maturity |-> 2, liquidity_delta |-> 0],
       [kind |-> "married_put", side |-> "buy", option_type |-> "call",
        time_to_maturity |-> 1, liquidity_delta |-> 1] >>

\* A second list: a seller of longer-dated puts and a
\* RollingOptionSellingStrategy that sells calls and buys back what is
\* close to maturity.  (In both lists two positions opened in one run
\* differ in type or maturity: equal records are the same object.)
SellingAndRolling ==
    << [kind |-> "selling", side |-> "sell", option_type |-> "put",
        time_to_maturity |-> 3, liquidity_delta |-> 0],
       [kind |-> "rolling", side |-> "sell", option_type |-> "call",
        trade_interval |-> 2, time_to_maturity |-> 2, time_to_cancel |-> 2,
        liquidity_delta |-> 0] >>

\* A third list: the seller of puts and a strategy of the caller's own (a
\* BaseOptionStrategy subclass) that opens a long call of size NaN, dated
\* beyond the end of every run.
SellingAndNonFinite ==
    << [kind |-> "selling", side |-> "sell", option_type |-> "put",
        time_to_maturity |-> 2, liquidity_delta |-> 0],
       [kind |-> "non_finite", side |-> "buy", option_type |-> "call",
        time_to_maturity |-> MaxEnd + 1, liquidity_delta |-> 0] >>

\* A fourth list: two OptionSellingStrategy objects with a trade interval
\* of two time units, one selling short-dated puts and one selling calls.
SellingAtIntervals ==
    << [kind |-> "option_selling", side |-> "sell", option_type |-> "put",
        trade_interval |-> 2, time_to_maturity |-> 1, liquidity_delta |-> 0],
       [kind |-> "option_selling", side |-> "sell", option_type |-> "call",
        trade_interval |-> 2, time_to_maturity |-> 2, liquidity_delta |-> 0] >>

\* The values a timing signal may carry (asserted by __init__).
StrategyIndexes == 0 .. (Len(SellingAndBuying) - 1)

VARIABLES
    strategies,       \* the list of strategies the simulator was built with
    calc,             \* the call of a pricing or position function and its result
    chain_timeline,   \* timestamp -> sequence of underlying prices of its rows
    timing_signal,    \* sorted sequence of [index, value] (a pandas Series)
    reset_calls,      \* strategy index -> reset() calls of the current run
    pc,               \* position inside simulate()
    start, end, time_step, starting_capital,
    num_steps, step, time, spot, signal, chain, last_spot, last_chain,
    primary, secondary, positions,
    liq_actions, exp_actions, strategy_actions,
    action_log, timeline

\* Everything but the function call: the simulator and its run.
engine_vars ==
    << strategies, chain_timeline, timing_signal, reset_calls, pc,
       start, end, time_step, starting_capital,
       num_steps, step, time, spot, signal, chain, last_spot, last_chain,
       primary, secondary, positions,
       liq_actions, exp_actions, strategy_actions,
       action_log, timeline >>

vars == << strategies, calc, chain_timeline, timing_signal, reset_calls, pc,
           start, end, time_step, starting_capital,
           num_steps, step, time, spot, signal, chain, last_spot, last_chain,
           primary, secondary, positions,
           liq_actions, exp_actions, strategy_actions,
           action_log, timeline >>

\* ---------------------------------------------------------------- helpers

Max(a, b) == IF a >= b THEN a ELSE b

Abs(a) == IF a >= 0 THEN a ELSE -a

Min(a, b) == IF a <= b THEN a ELSE b

\* The outcome of a call: a returned value or a raised exception.
Ok(v) == [ok |-> TRUE, value |-> v]

Raise(e) == [ok |-> FALSE, error |-> e]

\* math.sqrt on the fixed-point scale: the largest r with r*r <= n.
ISqrt(n) == CHOOSE r \in 0 .. n : r * r <= n /\ n < (r + 1) * (r + 1)

\* ndarray.max() and ndarray.min() of a non-empty array.
SeqMax(s) == CHOOSE x \in {s[i] : i \in 1 .. Len(s)} :
                 \A i \in 1 .. Len(s) : s[i] <= x

SeqMin(s) == CHOOSE x \in {s[i] : i \in 1 .. Len(s)} :
                 \A i \in 1 .. Len(s) : x <= s[i]

RECURSIVE SumSeq(_)
SumSeq(s) == IF s = << >> THEN 0 ELSE Head(s) + SumSeq(Tail(s))

\* Variant: nothing is removed.
RECURSIVE ListRemove_nothing(_, _)
ListRemove_nothing(s, x) == s

\* list.remove(x): drops the first element equal to x.
RECURSIVE ListRemove(_, _)
ListRemove(s, x) ==
    IF s = << >> THEN << >>
    ELSE IF Head(s) = x THEN Tail(s)
    ELSE << Head(s) >> \o ListRemove(Tail(s), x)

\* The pandas Series of a finite map, after sort_index().
RECURSIVE SortedSeries(_)
SortedSeries(f) ==
    IF DOMAIN f = {} THEN << >>
    ELSE LET m == CHOOSE x \in DOMAIN f : \A y \in DOMAIN f : x <= y
         IN  << [index |-> m, value |-> f[m]] >>
             \o SortedSeries([x \in DOMAIN f \ {m} |-> f[x]])

\* ----------------------------------------------------------- OptionPosition

\* float("nan") as a size: no comparison with it is true and a product
\* with it is NaN again; no operation on it raises.
NaN == -(2 ^ 20)

is_long(p) == p.size # NaN /\ p.size > 0

is_short(p) == p.size # NaN /\ p.size < 0

is_call(p) == p.type = "call"

moneyness(p, s) == IF is_call(p) THEN s - p.strike ELSE p.strike - s

collateral_value(p, s) == p.collateral_primary + p.collateral_secondary * s

delivery(p, s) ==
    IF p.size = NaN THEN NaN ELSE Max(0, moneyness(p, s)) * p.size

\* Variant: no position is ever found liquidated.
is_liquidated_never(p, s) == FALSE

\* Variant: the side of the position is not looked at.
is_liquidated_any_side(p, s) == collateral_value(p, s) < -delivery(p, s)

is_liquidated(p, s) ==
    /\ delivery(p, s) # NaN
    /\ collateral_value(p, s) < -delivery(p, s)
    /\ is_short(p)

\* Variant: a position expires only after its maturity has passed.
is_expired_strict(p, t) == t > p.maturity

is_expired(p, t) == t >= p.maturity

\* --------------------------------------------------------- SimulationStatus

liquidity(pr, sec, s) == pr + sec * s

num_long_positions(ps) == Cardinality({i \in 1 .. Len(ps) : is_long(ps[i])})

num_short_positions(ps) == Cardinality({i \in 1 .. Len(ps) : is_short(ps[i])})

size_long_positions(ps) ==
    Abs(SumSeq([i \in 1 .. Len(ps) |-> IF is_long(ps[i]) THEN ps[i].size ELSE 0]))

size_short_positions(ps) ==
    Abs(SumSeq([i \in 1 .. Len(ps) |-> IF is_short(ps[i]) THEN ps[i].size ELSE 0]))

status_collateral_primary(ps) ==
    SumSeq([i \in 1 .. Len(ps) |-> ps[i].collateral_primary])

status_collateral_secondary(ps) ==
    SumSeq([i \in 1 .. Len(ps) |-> ps[i].collateral_secondary])

\* --------------------------------------------------------------- OptionChain
\* Implied volatilities and margins are integers in units of 1/100, tenors
\* are in days; a quotient is rounded down to the unit.

\* The segment of the sorted abscissae xs that interp1d(kind="linear",
\* fill_value="extrapolate") uses for x: the first or last one outside the
\* range.
Segment(x, xs) ==
    IF x <= xs[1] THEN 1
    ELSE IF x >= xs[Len(xs)] THEN Len(xs) - 1
    ELSE CHOOSE i \in 1 .. (Len(xs) - 1) : xs[i] <= x /\ x < xs[i + 1]

\* OptionChain._linear_interpolation; interp1d refuses fewer than two
\* points.
_linear_interpolation(x, xs, ys) ==
    IF Len(xs) < 2 THEN Raise("ValueError")
    ELSE LET i == Segment(x, xs)
         IN  Ok(ys[i] + ((x - xs[i]) * (ys[i + 1] - ys[i]))
                            \div (xs[i + 1] - xs[i]))

\* Variant: the interpolated value is returned as it is.
_interpolate_skew_line_unclamped(strike, strikes, ivs, margin) ==
    IF Len(ivs) = 0 THEN Raise("ValueError")
    ELSE _linear_interpolation(strike, strikes, ivs)

\* OptionChain._interpolate_skew_line; max() of an empty array raises.
_interpolate_skew_line(strike, strikes, ivs, margin) ==
    IF Len(ivs) = 0 THEN Raise("ValueError")
    ELSE LET max_iv == SeqMax(ivs)
             min_iv == SeqMin(ivs)
             iv == _linear_interpolation(strike, strikes, ivs)
         IN  IF ~iv.ok THEN iv
             ELSE Ok(Max(Min((max_iv * margin) \div 100, iv.value), min_iv))

\* Variant: the volatilities are interpolated, not the variances.
_interpolate_term_structure_iv_linear(tau, taus, ivs) ==
    _linear_interpolation(tau, taus, ivs)

\* OptionChain._interpolate_term_structure (tau > 0); sqrt of a negative
\* variance raises.
_interpolate_term_structure(tau, taus, ivs) ==
    LET variances == [i \in 1 .. Len(taus) |-> taus[i] * ivs[i] * ivs[i]]
        variance == _linear_interpolation(tau, taus, variances)
    IN  IF ~variance.ok THEN variance
        ELSE IF variance.value < 0 THEN Raise("ValueError")
        ELSE Ok(ISqrt(variance.value \div tau))

\* A price table is a sequence of quotes [K, exp, iv]: strike, seconds to
\* expiration (here days) and the outcome of imp_vol_bsm(p, ...) * iv_ratio
\* for the quote's price, << v >> for a value and << >> for a raised
\* exception.

\* exp_counts[exp_counts >= 2].index.values, sorted.
ExpMultiple(price_chain) ==
    LET exps == {price_chain[i].exp : i \in 1 .. Len(price_chain)}
        multiple == {e \in exps :
                        Cardinality({i \in 1 .. Len(price_chain) :
                                        price_chain[i].exp = e}) >= 2}
        sorted == SortedSeries([e \in multiple |-> e])
    IN  [i \in 1 .. Len(sorted) |-> sorted[i].index]

\* Lines 78-85; an index outside the array raises IndexError.
BracketExps(exp_multiple, exp) ==
    LET earlier_exps == SelectSeq(exp_multiple, LAMBDA e : e < exp)
        later_exps == SelectSeq(exp_multiple, LAMBDA e : e >= exp)
    IN  IF Len(earlier_exps) = 0
        THEN Ok(<< later_exps[1], later_exps[2] >>)
        ELSE IF Len(later_exps) = 0
        THEN Ok(<< earlier_exps[Len(earlier_exps) - 1],
                   earlier_exps[Len(earlier_exps)] >>)
        ELSE IF Len(later_exps) < 2 THEN Raise("IndexError")
        ELSE Ok(<< earlier_exps[Len(earlier_exps)], later_exps[2] >>)

\* Lines 87-116 for one bracket maturity: its quotes sorted by strike, the
\* quotes whose inversion raises left out.
SkewPoints(price_chain, e) ==
    LET rows == {i \in 1 .. Len(price_chain) : price_chain[i].exp = e}
        by_K == SortedSeries(
                    [k \in {price_chain[i].K : i \in rows} |->
                        (CHOOSE i \in rows : price_chain[i].K = k)])
        kept == SelectSeq(by_K,
                          LAMBDA r : price_chain[r.value].iv # << >>)
    IN  [strikes |-> [i \in 1 .. Len(kept) |-> kept[i].index],
         ivs     |-> [i \in 1 .. Len(kept) |->
                         price_chain[kept[i].value].iv[1]]]

\* Variant: every quoted maturity is eligible for a skew line.
_get_strike_iv_interpolator_single_quote(price_chain, exp, default_iv) ==
    IF Len(price_chain) = 0 THEN Ok([kind |-> "default", iv |-> default_iv])
    ELSE LET sorted == SortedSeries(
                           [e \in {price_chain[i].exp :
                                      i \in 1 .. Len(price_chain)} |-> e])
             exp_multiple == [i \in 1 .. Len(sorted) |-> sorted[i].index]
         IN  IF Len(exp_multiple) >= 2
             THEN LET bracket == BracketExps(exp_multiple, exp)
                  IN  IF ~bracket.ok THEN bracket
                      ELSE Ok([kind |-> "bracket", exp |-> exp,
                               exp_lo |-> bracket.value[1],
                               exp_hi |-> bracket.value[2],
                               lo |-> SkewPoints(price_chain, bracket.value[1]),
                               hi |-> SkewPoints(price_chain, bracket.value[2])])
             ELSE Ok([kind |-> "default", iv |-> default_iv])

\* OptionChain._get_strike_iv_interpolator: the function it returns, as
\* the data the lambda closes over.
_get_strike_iv_interpolator(price_chain, exp, default_iv) ==
    IF Len(price_chain) = 0 THEN Ok([kind |-> "default", iv |-> default_iv])
    ELSE LET exp_multiple == ExpMultiple(price_chain)
         IN  IF Len(exp_multiple) >= 2
             THEN LET bracket == BracketExps(exp_multiple, exp)
                  IN  IF ~bracket.ok THEN bracket
                      ELSE Ok([kind |-> "bracket", exp |-> exp,
                               exp_lo |-> bracket.value[1],
                               exp_hi |-> bracket.value[2],
                               lo |-> SkewPoints(price_chain, bracket.value[1]),
                               hi |-> SkewPoints(price_chain, bracket.value[2])])
             ELSE Ok([kind |-> "default", iv |-> default_iv])

\* The returned lambda applied to a strike (lines 71, 118-139, 141).
IvFunc(f, strike, iv_margin) ==
    IF f.kind = "default" THEN Ok(f.iv)
    ELSE LET iv_lo == _interpolate_skew_line(strike, f.lo.strikes, f.lo.ivs,
                                             iv_margin)
             iv_hi == _interpolate_skew_line(strike, f.hi.strikes, f.hi.ivs,
                                             iv_margin)
         IN  IF ~iv_lo.ok THEN iv_lo
             ELSE IF ~iv_hi.ok THEN iv_hi
             ELSE _interpolate_term_structure(
                      f.exp, << f.exp_lo, f.exp_hi >>,
                      << iv_lo.value, iv_hi.value >>)

\* OptionChain._interpolate_chain
_interpolate_chain(chain_side, strike, exp, default_iv, iv_margin) ==
    LET iv_func == _get_strike_iv_interpolator(chain_side, exp, default_iv)
    IN  IF ~iv_func.ok THEN iv_func
        ELSE IvFunc(iv_func.value, strike, iv_margin)

\* py_vollib's black_scholes on the integer scale (prices in units of
\* 1/100, sigma in units of 1/100, t in days, r = 0): intrinsic value plus
\* a time value that grows with sigma and t and shrinks away from the
\* money.
black_scholes(flag, S, K, t, sigma) ==
    100 * Max(0, IF flag = "c" THEN S - K ELSE K - S)
        + Max(0, (S * sigma * ISqrt(t)) \div 48 - 50 * Abs(S - K))

\* py_vollib's analytical delta on the integer scale (units of 1/100):
\* between 0 and 1 for a call and between -1 and 0 for a put, falling as
\* the strike rises, faster for a small sigma * sqrt(t).
delta_bsm(flag, S, K, t, sigma) ==
    LET width == Max(1, (sigma * ISqrt(t)) \div 10)
        call == Max(0, Min(100, 50 + ((S - K) * 50) \div width))
    IN  IF flag = "c" THEN call ELSE call - 100

\* The strikes the root-finder may visit.
StrikeGrid == {50 + 5 * i : i \in 0 .. 20}

\* scipy.optimize.fsolve(func, x0) without full_output, for the residuals
\* f of func on the grid: the solution array and the flag ier that the
\* caller does not get to see.  With a root the search ends on a root
\* (ier = 1); without one it gives up on its last iterate, which may be
\* the initial guess, and only issues a warning (ier # 1).
fsolve(f, x0) ==
    LET roots == {k \in DOMAIN f : f[k] = 0}
    IN  IF roots # {} THEN {[x |-> k, ier |-> 1] : k \in roots}
        ELSE {[x |-> k, ier |-> 5] : k \in DOMAIN f \cup {x0}}

\* The residuals "lambda k: delta_interp(k) - delta" of get_price_by_delta.
DeltaResiduals(iv_interp, iv_margin, S, target, tau, flag) ==
    [k \in StrikeGrid |->
        delta_bsm(flag, S, k, tau, IvFunc(iv_interp, k, iv_margin).value)
            - target]

\* The residuals "lambda k: price_interp(k) - price" of get_strike_by_price.
PriceResiduals(iv_interp, iv_margin, S, price, tau, flag) ==
    [k \in StrikeGrid |->
        black_scholes(flag, S, k, tau, IvFunc(iv_interp, k, iv_margin).value)
            - price]

\* OptionChain.get_price_by_delta, for the outcome "solved" of its fsolve
\* call: strike = float(fsolve(...)[0]).
get_price_by_delta(price_chain, S, default_iv, iv_margin, target, days_to_maturity, flag, solved) ==
    LET f == _get_strike_iv_interpolator(price_chain, days_to_maturity,
                                         default_iv)
        iv == IvFunc(f.value, solved.x, iv_margin)
    IN  IF ~f.ok THEN f
        ELSE IF ~iv.ok THEN iv
        ELSE Ok([price  |-> black_scholes(flag, S, solved.x,
                                          days_to_maturity, iv.value),
                 strike |-> solved.x,
                 iv     |-> iv.value])

\* OptionChain.get_strike_by_price, for the outcome "solved" of its fsolve
\* call.
get_strike_by_price(price_chain, S, default_iv, iv_margin, price, days_to_maturity, flag, solved) ==
    LET f == _get_strike_iv_interpolator(price_chain, days_to_maturity,
                                         default_iv)
        iv == IvFunc(f.value, solved.x, iv_margin)
    IN  IF ~f.ok THEN f
        ELSE IF ~iv.ok THEN iv
        ELSE Ok([price |-> price, strike |-> solved.x, iv |-> iv.value])

\* OptionChain._get_price_chain for the snapshot rows of the chain: a row
\* carries its type, strike (spot_ratio = 1), seconds to expiration and its
\* three prices relative to the spot, in units of 1/100; p and
\* intrinsic_value are in units of 1/100.  No value is missing, so dropna
\* removes nothing.
_get_price_chain(rows, S, option_type, side) ==
    LET df == SelectSeq(rows, LAMBDA r : r.type = option_type)
        p(r) == r[side] * S
        intrinsic_value(r) ==
            p(r) - 100 * (IF option_type = "call" THEN S - r.strike
                          ELSE r.strike - S)
        kept == SelectSeq(df, LAMBDA r : intrinsic_value(r) > 0)
    IN  [i \in 1 .. Len(kept) |->
            [p |-> p(kept[i]), K |-> kept[i].strike, exp |-> kept[i].exp,
             iv_ratio |-> 1]]

\* OptionChain.get_price_by_strike on the mark side.  A surface is the
\* record of its spot, default_iv, iv_margin and the price table
\* _get_price_chain gives for the option type; exp is in the time unit of
\* the table's maturities.
get_price_by_strike(surface, strike, exp, flag) ==
    LET iv == _interpolate_chain(surface.price_chain, strike, exp,
                                 surface.default_iv, surface.iv_margin)
    IN  IF ~iv.ok THEN iv
        ELSE Ok([price  |-> black_scholes(flag, surface.spot, strike, exp,
                                          iv.value),
                 strike |-> strike,
                 iv     |-> iv.value])

\* ------------------------------------------- OptionPosition: value and delta
\* Values and deltas are in units of 1/100 (the scale of black_scholes and
\* delta_bsm); time is in hours, as the grace window is.  A call of
\* valuation or delta gives what it returns (out) and what it printed.
\* The surface argument is << >> for None and << surface >> otherwise.

\* pd.Timedelta("1h")
Grace == 1

\* self.type[:1]
Flag(p) == IF p.type = "call" THEN "c" ELSE "p"

\* Variant: the grace window is open at one hour.
valuation_strict_grace(p, s, t, surface) ==
    LET time_left == p.maturity - t
        closed_form == p.size * black_scholes(Flag(p), s, p.strike, time_left,
                                              p.iv_start)
    IN  IF time_left < Grace
        THEN [out |-> Ok(100 * delivery(p, s)), printed |-> << >>]
        ELSE IF surface = << >>
        THEN [out |-> Ok(closed_form), printed |-> << >>]
        ELSE LET quote == get_price_by_strike(surface[1], p.strike, time_left,
                                              Flag(p))
             IN  IF quote.ok
                 THEN [out |-> Ok(quote.value.price * p.size),
                       printed |-> << >>]
                 ELSE [out |-> Ok(closed_form),
                       printed |-> << quote.error >>]

\* OptionPosition.valuation
valuation(p, s, t, surface) ==
    LET time_left == p.maturity - t
        closed_form == p.size * black_scholes(Flag(p), s, p.strike, time_left,
                                              p.iv_start)
    IN  IF time_left <= Grace
        THEN [out |-> Ok(100 * delivery(p, s)), printed |-> << >>]
        ELSE IF surface = << >>
        THEN [out |-> Ok(closed_form), printed |-> << >>]
        ELSE LET quote == get_price_by_strike(surface[1], p.strike, time_left,
                                              Flag(p))
             IN  IF quote.ok
                 THEN [out |-> Ok(quote.value.price * p.size),
                       printed |-> << >>]
                 ELSE [out |-> Ok(closed_form),
                       printed |-> << quote.error >>]

\* Variant: an in-the-money put has the delta of a call.
binary_delta_unsigned(p, s) ==
    IF delivery(p, s) # 0 THEN 100 * p.size ELSE 0

\* Lines 85-89 of OptionPosition.delta: the delta inside the grace window.
binary_delta(p, s) ==
    IF delivery(p, s) # 0
    THEN (IF is_call(p) THEN 100 * p.size ELSE -(100 * p.size))
    ELSE 0

\* Variant: a failure of the surface is not caught.
position_delta_unguarded(p, s, t, surface) ==
    LET time_left == p.maturity - t
        closed_form == p.size * delta_bsm(Flag(p), s, p.strike, time_left,
                                          p.iv_start)
    IN  IF time_left <= Grace
        THEN [out |-> Ok(binary_delta(p, s)), printed |-> << >>]
        ELSE IF surface = << >>
        THEN [out |-> Ok(closed_form), printed |-> << >>]
        ELSE LET quote == get_price_by_strike(surface[1], p.strike, time_left,
                                              Flag(p))
             IN  IF quote.ok
                 THEN [out |-> Ok(p.size * delta_bsm(Flag(p), s, p.strike,
                                                     time_left,
                                                     quote.value.iv)),
                       printed |-> << >>]
                 ELSE [out |-> quote, printed |-> << >>]

\* OptionPosition.delta
position_delta(p, s, t, surface) ==
    LET time_left == p.maturity - t
        closed_form == p.size * delta_bsm(Flag(p), s, p.strike, time_left,
                                          p.iv_start)
    IN  IF time_left <= Grace
        THEN [out |-> Ok(binary_delta(p, s)), printed |-> << >>]
        ELSE IF surface = << >>
        THEN [out |-> Ok(closed_form), printed |-> << >>]
        ELSE LET quote == get_price_by_strike(surface[1], p.strike, time_left,
                                              Flag(p))
             IN  IF quote.ok
                 THEN [out |-> Ok(p.size * delta_bsm(Flag(p), s, p.strike,
                                                     time_left,
                                                     quote.value.iv)),
                       printed |-> << >>]
                 ELSE [out |-> Ok(closed_form),
                       printed |-> << quote.error >>]

\* sum(... for p in status.positions) over calls that may raise: the first
\* call that raises ends the sum.
RECURSIVE SumValues(_, _)
SumValues(calls, n) ==
    IF n = 0 THEN 0 ELSE SumValues(calls, n - 1) + calls[n].out.value

RECURSIVE Printed(_, _)
Printed(calls, n) ==
    IF n = 0 THEN << >> ELSE Printed(calls, n - 1) \o calls[n].printed

SumCalls(calls) ==
    LET raised == {i \in 1 .. Len(calls) : ~calls[i].out.ok}
        first == CHOOSE i \in raised : \A j \in raised : i <= j
    IN  IF raised = {}
        THEN [out |-> Ok(SumValues(calls, Len(calls))),
              printed |-> Printed(calls, Len(calls))]
        ELSE [out |-> calls[first].out, printed |-> Printed(calls, first)]

\* SimulationStatus.positions_delta
positions_delta(ps, s, t, surface) ==
    SumCalls([i \in 1 .. Len(ps) |-> position_delta(ps[i], s, t, surface)])

\* SimulationStatus.total_delta
total_delta(sec, ps, s, t, surface) ==
    LET pd == positions_delta(ps, s, t, surface)
    IN  IF ~pd.out.ok THEN pd
        ELSE [out |-> Ok(100 * sec + pd.out.value
                            + 100 * status_collateral_secondary(ps)),
              printed |-> pd.printed]

\* Variant: the secondary collateral of the positions is left out of the
\* aggregate delta.
PricedRow_without_collateral(s, pr, sec, ps, pv, pd) ==
    IF ~pv.out.ok THEN pv
    ELSE IF ~pd.out.ok
    THEN [out |-> pd.out, printed |-> pv.printed \o pd.printed]
    ELSE [out |-> Ok([positions_value |-> pv.out.value,
                      total_value |->
                          100 * (liquidity(pr, sec, s)
                                    + status_collateral_primary(ps)
                                    + status_collateral_secondary(ps) * s)
                              + pv.out.value,
                      positions_delta |-> pd.out.value,
                      total_delta |-> 100 * sec + pd.out.value]),
          printed |-> pv.printed \o pd.printed]

\* The priced columns of the row (lines 157-161 and 177-180 of
\* OptionSimulator._get_timeline_row) from the outcomes pv and pd of the
\* two sums.
PricedRow(s, pr, sec, ps, pv, pd) ==
    IF ~pv.out.ok THEN pv
    ELSE IF ~pd.out.ok
    THEN [out |-> pd.out, printed |-> pv.printed \o pd.printed]
    ELSE [out |-> Ok([positions_value |-> pv.out.value,
                      total_value |->
                          100 * (liquidity(pr, sec, s)
                                    + status_collateral_primary(ps)
                                    + status_collateral_secondary(ps) * s)
                              + pv.out.value,
                      positions_delta |-> pd.out.value,
                      total_delta |->
                          100 * sec + pd.out.value
                              + 100 * status_collateral_secondary(ps)]),
          printed |-> pv.printed \o pd.printed]

\* OptionSimulator._get_timeline_row, its priced columns: positions_value
\* is summed first, then positions_delta.
PricedColumns(t, s, pr, sec, ps, surface) ==
    PricedRow(s, pr, sec, ps,
              SumCalls([i \in 1 .. Len(ps) |->
                           valuation(ps[i], s, t, surface)]),
              positions_delta(ps, s, t, surface))

\* ------------------------------------------------------ OptionChainTimeline

\* Mean of the snapshot rows' underlying prices (spot_ratio = 1).
Mean(rows) == SumSeq(rows) \div Len(rows)

\* get_timestamp_chain: spot is None (the empty sequence) when the timestamp
\* has no rows; the OptionChain is identified by the timestamp whose rows it
\* was built from.
get_timestamp_chain(table, timestamp) ==
    LET rows == table[timestamp]
    IN  [spot  |-> IF Len(rows) > 0 THEN << Mean(rows) >> ELSE << >>,
         chain |-> {timestamp}]

\* ------------------------------------------------------------ timing signal

\* Series.get(timestamp): the values stored under the index label.
SeriesGet(series, timestamp) ==
    SelectSeq(series, LAMBDA e : e.index = timestamp)

\* series[series.index < timestamp]
SeriesBefore(series, timestamp) ==
    SelectSeq(series, LAMBDA e : e.index < timestamp)

\* Variant: the earliest previous signal is taken instead of the latest.
SignalAt_earliest(series, timestamp) ==
    LET got == SeriesGet(series, timestamp)
        previous == SeriesBefore(series, timestamp)
    IN  IF got # << >> THEN got[1].value
        ELSE IF Len(previous) > 0 THEN previous[1].value
        ELSE DefaultSignal

\* The signal of _iterate_timeline for one timestamp.
SignalAt(series, timestamp) ==
    LET got == SeriesGet(series, timestamp)
        previous == SeriesBefore(series, timestamp)
    IN  IF got # << >> THEN got[1].value
        ELSE IF Len(previous) > 0 THEN previous[Len(previous)].value
        ELSE DefaultSignal

\* Variant: the end timestamp is simulated too.
NumSteps_inclusive(s, e, interval) ==
    IF e - s >= 0 THEN (e - s) \div interval + 1 ELSE -((s - e) \div interval)

\* int((end - start) / interval): truncation towards zero.
NumSteps(s, e, interval) ==
    IF e - s >= 0 THEN (e - s) \div interval ELSE -((s - e) \div interval)

StepTimestamp(s, i, interval) == s + i * interval

\* ---------------------------------------------------------- SimulationAction

SimulationAction(stp, t, s, type, position, liquidity_change) ==
    [step |-> stp, timestamp |-> t, spot |-> s, type |-> type,
     position |-> position, liquidity_change |-> liquidity_change]

\* ------------------------------------------------------------ OptionSimulator

\* for strategy in self.strategies: strategy.reset()
RECURSIVE ResetLoop(_, _)
ResetLoop(calls, i) ==
    IF i > Len(strategies) THEN calls
    ELSE ResetLoop([calls EXCEPT ![i - 1] = @ + 1], i + 1)

_reset_strategies(calls) == ResetLoop(calls, 1)

\* The loop body of _check_liquidations over liquidated_positions.
RECURSIVE LiquidationLoop(_, _, _, _, _)
LiquidationLoop(todo, st, stp, t, s) ==
    IF todo = << >> THEN st
    ELSE LET position == Head(todo)
         IN  LiquidationLoop(
                 Tail(todo),
                 [positions |-> ListRemove(st.positions, position),
                  actions   |-> Append(st.actions,
                                   SimulationAction(stp, t, s, "liquidation",
                                                    position, 0))],
                 stp, t, s)

\* Variant: scans the live list while removing from it, so that the element
\* following a removed one is skipped.
RECURSIVE LiveLiquidationLoop(_, _, _, _, _)
LiveLiquidationLoop(st, i, stp, t, s) ==
    IF i > Len(st.positions) THEN st
    ELSE LET position == st.positions[i]
         IN  IF is_liquidated(position, s)
             THEN LiveLiquidationLoop(
                      [positions |-> ListRemove(st.positions, position),
                       actions   |-> Append(st.actions,
                                        SimulationAction(stp, t, s, "liquidation",
                                                         position, 0))],
                      i + 1, stp, t, s)
             ELSE LiveLiquidationLoop(st, i + 1, stp, t, s)

\* Variant: the liquidated positions are reported and stay in the list.
_check_liquidations_keep(stp, t, s, ps) ==
    LET liquidated_positions == SelectSeq(ps, LAMBDA p : is_liquidated(p, s))
    IN  [positions |-> ps,
         actions   |-> [i \in 1 .. Len(liquidated_positions) |->
                           SimulationAction(stp, t, s, "liquidation",
                                            liquidated_positions[i], 0)]]

_check_liquidations_live(stp, t, s, ps) ==
    LiveLiquidationLoop([positions |-> ps, actions |-> << >>], 1, stp, t, s)

_check_liquidations(stp, t, s, ps) ==
    LET liquidated_positions == SelectSeq(ps, LAMBDA p : is_liquidated(p, s))
    IN  LiquidationLoop(liquidated_positions,
                        [positions |-> ps, actions |-> << >>], stp, t, s)

\* Variant: the collateral of a settled position is set to zero on the
\* position before the action is recorded.
RECURSIVE ExpirationLoop_release(_, _, _, _, _)
ExpirationLoop_release(todo, st, stp, t, s) ==
    IF todo = << >> THEN st
    ELSE LET position == Head(todo)
             liquidity_change ==
                 delivery(position, s) + collateral_value(position, s)
             released == [position EXCEPT !.collateral_primary = 0,
                                          !.collateral_secondary = 0]
         IN  ExpirationLoop_release(
                 Tail(todo),
                 [primary   |-> st.primary + liquidity_change,
                  positions |-> ListRemove(st.positions, position),
                  actions   |-> Append(st.actions,
                                   SimulationAction(stp, t, s, "expiration",
                                                    released, liquidity_change))],
                 stp, t, s)

\* The loop body of _check_expirations over expired_positions.
RECURSIVE ExpirationLoop(_, _, _, _, _)
ExpirationLoop(todo, st, stp, t, s) ==
    IF todo = << >> THEN st
    ELSE LET position == Head(todo)
             collateral == collateral_value(position, s)
             dlv == delivery(position, s)
             liquidity_change == dlv + collateral
         IN  ExpirationLoop(
                 Tail(todo),
                 [primary   |-> st.primary + liquidity_change,
                  positions |-> ListRemove(st.positions, position),
                  actions   |-> Append(st.actions,
                                   SimulationAction(stp, t, s, "expiration",
                                                    position, liquidity_change))],
                 stp, t, s)

_check_expirations(stp, t, s, pr, ps) ==
    LET expired_positions == SelectSeq(ps, LAMBDA p : is_expired(p, t))
    IN  ExpirationLoop(expired_positions,
                       [primary |-> pr, positions |-> ps, actions |-> << >>],
                       stp, t, s)

\* The balance and position columns of a timeline row (the valuation and
\* delta columns are priced on the surface and are not part of this row).
_get_timeline_row(t, s, pr, sec, ps) ==
    [timestamp            |-> t,
     spot                 |-> s,
     primary              |-> pr,
     secondary            |-> sec,
     liquidity            |-> liquidity(pr, sec, s),
     num_long_positions   |-> num_long_positions(ps),
     num_short_positions  |-> num_short_positions(ps),
     size_long_positions  |-> size_long_positions(ps),
     size_short_positions |-> size_short_positions(ps),
     collateral_primary   |-> status_collateral_primary(ps),
     collateral_secondary |-> status_collateral_secondary(ps),
     total_collaterals    |-> status_collateral_primary(ps)
                                + status_collateral_secondary(ps) * s]

\* timeline.loc[label] = row: replaces the row of that label, else appends.
SetLoc(tl, label, row) ==
    IF \E i \in 1 .. Len(tl) : tl[i].index = label
    THEN [i \in 1 .. Len(tl) |->
             IF tl[i].index = label THEN [index |-> label, row |-> row]
             ELSE tl[i]]
    ELSE Append(tl, [index |-> label, row |-> row])

\* Variant: the actions of the checks are logged before the strategy runs.
AfterPhase_log_early(phase) ==
    CASE phase = "liquidations" -> "expirations"
      [] phase = "expirations"  -> "log"
      [] phase = "log"          -> "strategy"
      [] phase = "strategy"     -> "iterate"

\* Variant: the strategy runs before the expiration check.
AfterPhase_strategy_early(phase) ==
    CASE phase = "liquidations" -> "strategy"
      [] phase = "strategy"     -> "expirations"
      [] phase = "expirations"  -> "log"
      [] phase = "log"          -> "iterate"

\* The order of the operations inside one iteration of simulate's loop
\* (lines 209-226), and back to the generator.
AfterPhase(phase) ==
    CASE phase = "liquidations" -> "expirations"
      [] phase = "expirations"  -> "strategy"
      [] phase = "strategy"     -> "log"
      [] phase = "log"          -> "iterate"

\* Variant: a timestamp without rows falls back to the initial spot and
\* chain instead of the latest ones.
CarryForward_reset(got, lspot, lchain) ==
    IF got.spot = << >>
    THEN [spot |-> DefaultSpot, chain |-> {}]
    ELSE [spot |-> got.spot[1], chain |-> got.chain]

\* Variant: the spot is carried forward, the chain is not.
CarryForward_spot_only(got, lspot, lchain) ==
    IF got.spot = << >>
    THEN [spot |-> lspot, chain |-> got.chain]
    ELSE [spot |-> got.spot[1], chain |-> got.chain]

\* if spot is None: spot = last_spot; chain = last_chain
CarryForward(got, lspot, lchain) ==
    IF got.spot = << >>
    THEN [spot |-> lspot, chain |-> lchain]
    ELSE [spot |-> got.spot[1], chain |-> got.chain]

\* Variant: the list of open positions is shared with the previous call.
FreshStatus_shared_list(capital) ==
    [primary |-> capital, secondary |-> 0, positions |-> positions]

\* status = SimulationStatus(starting_capital, 0.0, [])
FreshStatus(capital) ==
    [primary |-> capital, secondary |-> 0, positions |-> << >>]

\* Variant: the strategy's actions are logged first.
ActionsToLog_strategy_first(liq, exp, strat) == strat \o liq \o exp

\* liq_actions + exp_actions + strategy_actions
ActionsToLog(liq, exp, strat) == liq \o exp \o strat

\* ------------------------------------------------------------------ strategies

\* BaseOptionStrategy._add_and_rebalance
_add_and_rebalance(quantity, pr, sec, delta, s) ==
    LET total == liquidity(pr, sec, s) + quantity
    IN  [primary   |-> total * (1 - delta),
         secondary |-> (total * delta) \div s]

\* The position a strategy opens and the liquidity it moves, for the strike
\* and price it got from the surface and the collateral it posts.
NewTrade(cfg, t, s, strike, price, collateral) ==
    IF cfg.side = "sell"
    THEN [position |-> [type |-> cfg.option_type, strike |-> strike,
                        maturity |-> t + cfg.time_to_maturity, size |-> -1,
                        collateral_primary |-> collateral[1],
                        collateral_secondary |-> collateral[2]],
          liquidity_change |-> price - (collateral[1] + collateral[2] * s)]
    ELSE [position |-> [type |-> cfg.option_type, strike |-> strike,
                        maturity |-> t + cfg.time_to_maturity, size |-> 1,
                        collateral_primary |-> 0,
                        collateral_secondary |-> 0],
          liquidity_change |-> -price]

\* strategy.execute(step, time, spot, status, chain, action_log) when the
\* strategy does not trade at this step.
ExecuteNoTrade(pr, sec, ps) ==
    [primary |-> pr, secondary |-> sec, positions |-> ps, actions |-> << >>]

\* strategy.execute(...) when the strategy trades at this step.
ExecuteTrade(cfg, stp, t, s, pr, sec, ps, strike, price, collateral) ==
    LET trade == NewTrade(cfg, t, s, strike, price, collateral)
        bal == _add_and_rebalance(trade.liquidity_change, pr, sec,
                                  cfg.liquidity_delta, s)
    IN  [primary   |-> bal.primary,
         secondary |-> bal.secondary,
         positions |-> Append(ps, trade.position),
         actions   |-> << SimulationAction(stp, t, s, cfg.side, trade.position,
                                           trade.liquidity_change) >>]

\* strategy.execute(...) of the caller's strategy that returns the status
\* with a position of size NaN appended, bought at no cost.
NonFiniteExecute(cfg, stp, t, s, pr, sec, ps, strike) ==
    LET position == [type |-> cfg.option_type, strike |-> strike,
                     maturity |-> t + cfg.time_to_maturity, size |-> NaN,
                     collateral_primary |-> 0, collateral_secondary |-> 0]
    IN  [primary   |-> pr,
         secondary |-> sec,
         positions |-> Append(ps, position),
         actions   |-> << SimulationAction(stp, t, s, cfg.side, position, 0) >>]

\* BaseOptionStrategy._get_last_strategy_action_time(action_log): the
\* timestamp of the last buy or sell action, None being the empty sequence.
RECURSIVE _get_last_strategy_action_time(_)
_get_last_strategy_action_time(log) ==
    IF log = << >> THEN << >>
    ELSE IF log[Len(log)].type \in {"buy", "sell"}
         THEN << log[Len(log)].timestamp >>
         ELSE _get_last_strategy_action_time(SubSeq(log, 1, Len(log) - 1))

\* What chain.get_price_by_moneyness / get_price_by_delta gives the strategy:
\* a strike and a price, or the exception the surface query raises.
SurfaceOutcomes ==
    {Ok([strike |-> k, price |-> p]) : k \in Strikes, p \in Premiums}
        \cup {Raise("IndexError")}

\* pricing_fn(self.target, self.maturity_days, self.option_type, "bid"):
\* the attribute lookup on a chain of None raises.
pricing_fn(surface, outcome) ==
    IF surface = {} THEN Raise("AttributeError") ELSE outcome

\* OptionSellingStrategy.execute: the result (status, new_actions), or the
\* exception that leaves it.
OptionSellingExecute(cfg, stp, t, s, pr, sec, ps, surface, log, outcome, collateral) ==
    LET last_action_time == _get_last_strategy_action_time(log)
    IN  IF \/ last_action_time = << >>
           \/ t - last_action_time[1] >= cfg.trade_interval
        THEN LET quote == pricing_fn(surface, outcome)
             IN  IF quote.ok
                 THEN Ok(ExecuteTrade(cfg, stp, t, s, pr, sec, ps,
                                      quote.value.strike, quote.value.price,
                                      collateral))
                 ELSE quote
        ELSE Ok(ExecuteNoTrade(pr, sec, ps))

\* Variant: a position is bought back without an action being recorded.
RECURSIVE RollingCloseLoop_unlogged(_, _, _, _, _, _, _)
RollingCloseLoop_unlogged(cfg, st, i, stp, t, s, price) ==
    IF i > Len(st.positions) THEN st
    ELSE LET position == st.positions[i]
         IN  IF (position.maturity - t) <= cfg.time_to_cancel
             THEN LET liquidity_change ==
                          -(price * Abs(position.size))
                              + collateral_value(position, s)
                      bal == _add_and_rebalance(liquidity_change, st.primary,
                                                st.secondary,
                                                cfg.liquidity_delta, s)
                  IN  RollingCloseLoop_unlogged(
                          cfg,
                          [primary   |-> bal.primary,
                           secondary |-> bal.secondary,
                           positions |-> ListRemove(st.positions, position),
                           actions   |-> st.actions],
                          i + 1, stp, t, s, price)
             ELSE RollingCloseLoop_unlogged(cfg, st, i + 1, stp, t, s, price)

\* RollingOptionSellingStrategy.execute, lines 74-105: "for position in
\* status.positions" walks the live list by index while the body removes
\* from it.
RECURSIVE RollingCloseLoop(_, _, _, _, _, _, _)
RollingCloseLoop(cfg, st, i, stp, t, s, price) ==
    IF i > Len(st.positions) THEN st
    ELSE LET position == st.positions[i]
         IN  IF (position.maturity - t) <= cfg.time_to_cancel
             THEN LET premium_spent == price * Abs(position.size)
                      collateral_retrieved == collateral_value(position, s)
                      liquidity_change == -premium_spent + collateral_retrieved
                      bal == _add_and_rebalance(liquidity_change, st.primary,
                                                st.secondary,
                                                cfg.liquidity_delta, s)
                      new_position == [position EXCEPT !.size = -position.size]
                  IN  RollingCloseLoop(
                          cfg,
                          [primary   |-> bal.primary,
                           secondary |-> bal.secondary,
                           positions |-> ListRemove(st.positions, position),
                           actions   |-> Append(st.actions,
                                            SimulationAction(stp, t, s, "buy",
                                                             new_position,
                                                             liquidity_change))],
                          i + 1, stp, t, s, price)
             ELSE RollingCloseLoop(cfg, st, i + 1, stp, t, s, price)

\* RollingOptionSellingStrategy.execute: buy back, then sell a new option
\* if the last strategy action of the log is at least trade_interval old.
RollingExecute(cfg, stp, t, s, pr, sec, ps, log, close_price, strike, price, collateral) ==
    LET last_action_time == _get_last_strategy_action_time(log)
        closed == RollingCloseLoop(cfg,
                                   [primary |-> pr, secondary |-> sec,
                                    positions |-> ps, actions |-> << >>],
                                   1, stp, t, s, close_price)
    IN  IF last_action_time = << >>
           \/ t - last_action_time[1] >= cfg.trade_interval
        THEN LET sold == ExecuteTrade(cfg, stp, t, s, closed.primary,
                                      closed.secondary, closed.positions,
                                      strike, price, collateral)
             IN  [sold EXCEPT !.actions = closed.actions \o @]
        ELSE closed

\* ---------------------------------------------------------------- inputs

QuoteTables == [Times -> {<< >>} \cup {<< s >> : s \in Spots}]

TimingSignals ==
    {SortedSeries(f) : f \in UNION {[D -> StrategyIndexes] : D \in SUBSET Times}}

\* -------------------------------------------------------------------- actions

\* A flat and a crash table with every timestamp quoted, and the signals
\* "none" and "alternate between the two strategies".
BaseTables ==
    {[t \in Times |-> << 120 >>],
     [t \in Times |-> IF t = 0 THEN << 120 >> ELSE << 40 >>]}

BaseSignals ==
    {<< >>, SortedSeries([t \in Times |-> t % 2])}

\* No pricing or position function has been called.
NoCall == [op |-> "none"]

\* The locals of simulate before its first call.
Idle ==
    /\ reset_calls = [k \in 0 .. (Len(strategies) - 1) |-> 0]
    /\ pc = "idle"
    /\ start = 0 /\ end = 0 /\ time_step = 1 /\ starting_capital = 0
    /\ num_steps = 0 /\ step = 0 /\ time = 0
    /\ spot = DefaultSpot /\ signal = DefaultSignal /\ chain = {}
    /\ last_spot = DefaultSpot /\ last_chain = {}
    /\ primary = 0 /\ secondary = 0 /\ positions = << >>
    /\ liq_actions = << >> /\ exp_actions = << >> /\ strategy_actions = << >>
    /\ action_log = << >> /\ timeline = << >>

\* The state after OptionSimulator.__init__: every quote table with one of
\* the base signals, or every timing signal with one of the base tables.
Init ==
    /\ strategies = SellingAndBuying
    /\ \/ chain_timeline \in QuoteTables /\ timing_signal \in BaseSignals
       \/ chain_timeline \in BaseTables /\ timing_signal \in TimingSignals
    /\ calc = NoCall
    /\ Idle

inputs_unchanged ==
    UNCHANGED << strategies, calc, chain_timeline, timing_signal >>

args_unchanged == UNCHANGED << start, end, time_step, starting_capital, num_steps >>

\* simulate(), lines 193-204, and the first lines of _iterate_timeline.
Simulate(s, e, interval, capital) ==
    /\ pc \in {"idle", "done"}
    /\ reset_calls' =
           _reset_strategies([k \in 0 .. (Len(strategies) - 1) |-> 0])
    /\ start' = s /\ end' = e /\ time_step' = interval
    /\ starting_capital' = capital
    /\ LET status == FreshStatus(capital)
       IN  /\ primary' = status.primary
           /\ secondary' = status.secondary
           /\ positions' = status.positions
    /\ timeline' = << >> /\ action_log' = << >>
    /\ num_steps' = NumSteps(s, e, interval)
    /\ last_spot' = DefaultSpot /\ last_chain' = {}
    /\ step' = 0
    /\ pc' = "iterate"
    \* locals of the new call that are not bound yet
    /\ time' = 0 /\ spot' = DefaultSpot /\ signal' = DefaultSignal
    /\ chain' = {}
    /\ liq_actions' = << >> /\ exp_actions' = << >>
    /\ strategy_actions' = << >>
    /\ inputs_unchanged

\* One iteration of the generator _iterate_timeline.
IterateYield ==
    /\ pc = "iterate"
    /\ step < num_steps
    /\ LET timestamp == StepTimestamp(start, step, time_step)
           got == get_timestamp_chain(chain_timeline, timestamp)
           cur == CarryForward(got, last_spot, last_chain)
       IN  /\ time' = timestamp
           /\ spot' = cur.spot
           /\ chain' = cur.chain
           /\ signal' = SignalAt(timing_signal, timestamp)
           /\ last_spot' = cur.spot
           /\ last_chain' = cur.chain
    /\ pc' = "liquidations"
    /\ UNCHANGED << reset_calls, step, primary, secondary, positions,
                    liq_actions, exp_actions, strategy_actions,
                    action_log, timeline >>
    /\ args_unchanged /\ inputs_unchanged

\* The generator is exhausted: simulate returns the SimulationResult.
IterateStop ==
    /\ pc = "iterate"
    /\ step >= num_steps
    /\ pc' = "done"
    /\ UNCHANGED << reset_calls, step, time, spot, signal, chain,
                    last_spot, last_chain, primary, secondary, positions,
                    liq_actions, exp_actions, strategy_actions,
                    action_log, timeline >>
    /\ args_unchanged /\ inputs_unchanged

CheckLiquidations ==
    /\ pc = "liquidations"
    /\ LET r == _check_liquidations(step, time, spot, positions)
       IN  /\ positions' = r.positions
           /\ liq_actions' = r.actions
    /\ pc' = AfterPhase("liquidations")
    /\ UNCHANGED << reset_calls, step, time, spot, signal, chain,
                    last_spot, last_chain, primary, secondary,
                    exp_actions, strategy_actions, action_log, timeline >>
    /\ args_unchanged /\ inputs_unchanged

CheckExpirations ==
    /\ pc = "expirations"
    /\ LET r == _check_expirations(step, time, spot, primary, positions)
       IN  /\ primary' = r.primary
           /\ positions' = r.positions
           /\ exp_actions' = r.actions
    /\ pc' = AfterPhase("expirations")
    /\ UNCHANGED << reset_calls, step, time, spot, signal, chain,
                    last_spot, last_chain, secondary,
                    liq_actions, strategy_actions, action_log, timeline >>
    /\ args_unchanged /\ inputs_unchanged

\* strategy = self.strategies[signal]; strategy.execute(...)
ExecuteStrategy ==
    /\ pc = "strategy"
    /\ strategies[signal + 1].kind \in {"selling", "married_put"}
    /\ LET strategy == strategies[signal + 1]
       IN  \E trades \in BOOLEAN, strike \in Strikes, price \in Premiums,
              collateral \in SellCollaterals :
               LET r == IF trades
                        THEN ExecuteTrade(strategy, step, time, spot, primary,
                                          secondary, positions, strike, price,
                                          collateral)
                        ELSE ExecuteNoTrade(primary, secondary, positions)
               IN  /\ primary' = r.primary
                   /\ secondary' = r.secondary
                   /\ positions' = r.positions
                   /\ strategy_actions' = r.actions
    /\ pc' = AfterPhase("strategy")
    /\ UNCHANGED << reset_calls, step, time, spot, signal, chain,
                    last_spot, last_chain,
                    liq_actions, exp_actions, action_log, timeline >>
    /\ args_unchanged /\ inputs_unchanged

\* strategy.execute(...) of a RollingOptionSellingStrategy.
ExecuteRolling ==
    /\ pc = "strategy"
    /\ strategies[signal + 1].kind = "rolling"
    /\ LET strategy == strategies[signal + 1]
       IN  \E close_price \in Premiums, strike \in Strikes,
              price \in Premiums, collateral \in SellCollaterals :
               LET r == RollingExecute(strategy, step, time, spot, primary,
                                       secondary, positions, action_log,
                                       close_price, strike, price, collateral)
               IN  /\ primary' = r.primary
                   /\ secondary' = r.secondary
                   /\ positions' = r.positions
                   /\ strategy_actions' = r.actions
    /\ pc' = AfterPhase("strategy")
    /\ UNCHANGED << reset_calls, step, time, spot, signal, chain,
                    last_spot, last_chain,
                    liq_actions, exp_actions, action_log, timeline >>
    /\ args_unchanged /\ inputs_unchanged

\* strategy.execute(...) of the strategy that returns a size of NaN:
\* simulate takes the returned status as it is.
ExecuteNonFinite ==
    /\ pc = "strategy"
    /\ strategies[signal + 1].kind = "non_finite"
    /\ \E strike \in Strikes :
          LET r == NonFiniteExecute(strategies[signal + 1], step, time, spot,
                                    primary, secondary, positions, strike)
          IN  /\ primary' = r.primary
              /\ secondary' = r.secondary
              /\ positions' = r.positions
              /\ strategy_actions' = r.actions
    /\ pc' = AfterPhase("strategy")
    /\ UNCHANGED << reset_calls, step, time, spot, signal, chain,
                    last_spot, last_chain,
                    liq_actions, exp_actions, action_log, timeline >>
    /\ args_unchanged /\ inputs_unchanged

\* "Log status and actions", lines 221-226, and the loop's next index.
LogStep ==
    /\ pc = "log"
    /\ timeline' = SetLoc(timeline, step,
                          _get_timeline_row(time, spot, primary, secondary,
                                            positions))
    /\ action_log' = action_log
                        \o ActionsToLog(liq_actions, exp_actions,
                                        strategy_actions)
    /\ step' = step + 1
    /\ pc' = AfterPhase("log")
    /\ UNCHANGED << reset_calls, time, spot, signal, chain,
                    last_spot, last_chain, primary, secondary, positions,
                    liq_actions, exp_actions, strategy_actions >>
    /\ args_unchanged /\ inputs_unchanged

Next ==
    \/ \E s \in Starts, interval \in TimeSteps, capital \in Capitals :
          \E e \in s .. MaxEnd : Simulate(s, e, interval, capital)
    \/ IterateYield
    \/ IterateStop
    \/ CheckLiquidations
    \/ CheckExpirations
    \/ ExecuteStrategy
    \/ LogStep

Spec == Init /\ [][Next]_vars

\* ------------------------------------------------- calls of the pure functions

\* Observed (strike, IV) points of a skew line, queried strikes and margins.
SkewStrikes == {90, 100, 110}
SkewIvs == {40, 60, 80}
QueryStrikes == {50, 95, 100, 150}
Margins == {80, 100, 125}

\* The (strikes, ivs) arrays of the non-empty skew lines, sorted by strike.
SkewLines ==
    {SortedSeries(f) :
        f \in UNION {[D -> SkewIvs] : D \in (SUBSET SkewStrikes) \ {{}}}}

\* Bracket tenors, bracket volatilities and target tenors.
Tenors == {7, 30, 60}
TermIvs == {30, 50, 70}
TargetTenors == {1, 7, 14, 30, 45, 90}

\* The quotes a price table may hold: per strike and maturity none, one
\* that inverts to the IV of its cell, or one whose inversion raises.
TableStrikes == {90, 110}
TableExps == {7, 30, 60}
CellIv(k, e) == IF k = 90 THEN 80 - e \div 2 ELSE 40 + e \div 2

RECURSIVE QuotesOf(_, _)
QuotesOf(cells, state) ==
    IF cells = << >> THEN << >>
    ELSE LET c == Head(cells)
             rest == QuotesOf(Tail(cells), state)
         IN  IF state[c] = "none" THEN rest
             ELSE << [K |-> c[1], exp |-> c[2],
                      iv |-> IF state[c] = "quote"
                             THEN << CellIv(c[1], c[2]) >> ELSE << >>] >>
                  \o rest

TableCells ==
    << << 90, 7 >>, << 110, 7 >>, << 90, 30 >>, << 110, 30 >>,
       << 90, 60 >>, << 110, 60 >> >>

PriceTables ==
    {QuotesOf(TableCells, state) :
        state \in [{TableCells[i] : i \in 1 .. Len(TableCells)} ->
                      {"none", "quote", "fails"}]}

TargetExps == {1, 14, 30, 45, 90}

\* default_iv and iv_margin of the surface under test.
SurfaceDefaultIv == 100
SurfaceIvMargin == 125

CallInterpolateChain ==
    /\ calc = NoCall
    /\ \E chain_side \in PriceTables, strike \in {95, 150},
          exp \in TargetExps :
           calc' = [op |-> "_interpolate_chain", price_chain |-> chain_side,
                    strike |-> strike, exp |-> exp,
                    result |-> _interpolate_chain(chain_side, strike, exp,
                                                  SurfaceDefaultIv,
                                                  SurfaceIvMargin)]
    /\ UNCHANGED engine_vars

\* The spot of the surface under test, the tenors of the strike searches
\* and the price tables they run on (all give the default IV).
SurfaceSpot == 100
SearchTenors == {4, 25}
SearchTables ==
    {<< >>, << [K |-> 90, exp |-> 7, iv |-> << 77 >>],
               [K |-> 110, exp |-> 7, iv |-> << 43 >>] >>}
Flags == {"c", "p"}

\* Targets of a delta search: the delta of a grid strike, and a delta of
\* the wrong sign for the option type (no strike has it).
DeltaTargets(flag, tau) ==
    {delta_bsm(flag, SurfaceSpot, 90, tau, SurfaceDefaultIv),
     delta_bsm(flag, SurfaceSpot, 110, tau, SurfaceDefaultIv),
     IF flag = "c" THEN -10 ELSE 10}

\* Targets of a price search: the price of a grid strike, and a negative
\* price.
PriceTargets(flag, tau) ==
    {black_scholes(flag, SurfaceSpot, 90, tau, SurfaceDefaultIv),
     black_scholes(flag, SurfaceSpot, 110, tau, SurfaceDefaultIv),
     -100}

CallPriceByDelta ==
    /\ calc = NoCall
    /\ \E price_chain \in SearchTables, flag \in Flags, tau \in SearchTenors :
         \E target \in DeltaTargets(flag, tau) :
           LET f == _get_strike_iv_interpolator(price_chain, tau,
                                                SurfaceDefaultIv)
               residuals == DeltaResiduals(f.value, SurfaceIvMargin,
                                           SurfaceSpot, target, tau, flag)
           IN  \E solved \in fsolve(residuals, SurfaceSpot) :
                 calc' = [op |-> "get_price_by_delta", flag |-> flag,
                          target |-> target, days_to_maturity |-> tau,
                          price_chain |-> price_chain, solved |-> solved,
                          result |-> get_price_by_delta(
                                         price_chain, SurfaceSpot,
                                         SurfaceDefaultIv, SurfaceIvMargin,
                                         target, tau, flag, solved)]
    /\ UNCHANGED engine_vars

CallStrikeByPrice ==
    /\ calc = NoCall
    /\ \E price_chain \in SearchTables, flag \in Flags, tau \in SearchTenors :
         \E price \in PriceTargets(flag, tau) :
           LET f == _get_strike_iv_interpolator(price_chain, tau,
                                                SurfaceDefaultIv)
               residuals == PriceResiduals(f.value, SurfaceIvMargin,
                                           SurfaceSpot, price, tau, flag)
               price_guess ==
                   black_scholes(flag, SurfaceSpot, SurfaceSpot, tau,
                                 IvFunc(f.value, SurfaceSpot,
                                        SurfaceIvMargin).value)
           IN  \E solved \in fsolve(residuals, price_guess) :
                 calc' = [op |-> "get_strike_by_price", flag |-> flag,
                          target |-> price, days_to_maturity |-> tau,
                          price_chain |-> price_chain, solved |-> solved,
                          result |-> get_strike_by_price(
                                         price_chain, SurfaceSpot,
                                         SurfaceDefaultIv, SurfaceIvMargin,
                                         price, tau, flag, solved)]
    /\ UNCHANGED engine_vars

\* Positions to value: both types and sides, struck below and above the
\* surface's spot, maturing at hour ValuedMaturity.
ValuedMaturity == 48
ValuedPositions ==
    {[type |-> ty, strike |-> k, maturity |-> ValuedMaturity, size |-> sz,
      collateral_primary |-> IF sz < 0 THEN 10 ELSE 0,
      collateral_secondary |-> IF sz < 0 THEN 2 ELSE 0, iv_start |-> 50] :
        ty \in {"call", "put"}, k \in TableStrikes, sz \in {-2, 1}}

\* Valuation times: 45, 14 and 2 hours before maturity, at the edge of the
\* grace window, at maturity and after it.
ValuationTimes == {3, 34, 46, 47, 48, 53}
ValuationSpots == {95, 110, 120}

\* The surface passed: None, or a surface over an empty table or over a
\* table of six quotes, any of which may fail to invert.
ValuationChains ==
    {<< >>}
        \cup {<< [spot |-> SurfaceSpot, default_iv |-> SurfaceDefaultIv,
                  iv_margin |-> SurfaceIvMargin, price_chain |-> pt] >> :
                 pt \in {t \in PriceTables : Len(t) \in {0, 6}}}

\* The books of a priced row: a short put struck at 110 next to a long
\* position.
ValuedBooks ==
    {<< p, q >> : p \in {r \in ValuedPositions :
                            r.type = "put" /\ r.strike = 110 /\ r.size < 0},
                  q \in {r \in ValuedPositions : r.size > 0}}

\* The surfaces of a priced row: those whose nearest maturity is fully
\* quoted.
RowChains ==
    {ch \in ValuationChains :
        ch # << >> =>
            \A i \in 1 .. Len(ch[1].price_chain) :
                ch[1].price_chain[i].exp = 7
                    => ch[1].price_chain[i].iv # << >>}

CallValuation ==
    /\ calc = NoCall
    /\ \E p \in ValuedPositions, s \in ValuationSpots, t \in ValuationTimes,
          ch \in ValuationChains :
           calc' = [op |-> "valuation", position |-> p, spot |-> s,
                    time |-> t, chain |-> ch,
                    result |-> valuation(p, s, t, ch)]
    /\ UNCHANGED engine_vars

CallDelta ==
    /\ calc = NoCall
    /\ \E p \in ValuedPositions, s \in ValuationSpots, t \in ValuationTimes,
          ch \in ValuationChains :
           calc' = [op |-> "delta", position |-> p, spot |-> s,
                    time |-> t, chain |-> ch,
                    result |-> position_delta(p, s, t, ch)]
    /\ UNCHANGED engine_vars

CallTimelineRow ==
    /\ calc = NoCall
    /\ \E ps \in ValuedBooks, s \in {95}, t \in {3, 34}, ch \in RowChains,
          sec \in {0, 3} :
           calc' = [op |-> "_get_timeline_row", positions |-> ps, spot |-> s,
                    time |-> t, chain |-> ch, primary |-> 1000,
                    secondary |-> sec,
                    result |-> PricedColumns(t, s, 1000, sec, ps, ch)]
    /\ UNCHANGED engine_vars

\* Snapshot rows: calls and puts struck on either side of the spot, with
\* no price at all, a price below the distance to the spot and a price
\* above it (bid, mark, ask in 1/100 of the spot).
SnapshotRows ==
    {[type |-> ty, strike |-> k, exp |-> 7, bid_price |-> q[1],
      mark_price |-> q[2], ask_price |-> q[3]] :
        ty \in {"call", "put"}, k \in TableStrikes,
        q \in {<< 0, 0, 0 >>, << 0, 5, 10 >>, << 12, 15, 18 >>}}

Snapshots == {<< a, b >> : a \in SnapshotRows, b \in SnapshotRows}

CallGetPriceChain ==
    /\ calc = NoCall
    /\ \E rows \in Snapshots, option_type \in {"call", "put"},
          side \in {"bid", "mark", "ask"} :
           calc' = [op |-> "_get_price_chain", chain |-> rows,
                    spot |-> SurfaceSpot, option_type |-> option_type,
                    side |-> side,
                    result |-> _get_price_chain(rows, SurfaceSpot,
                                                option_type,
                                                IF side = "bid"
                                                THEN "bid_price"
                                                ELSE IF side = "mark"
                                                THEN "mark_price"
                                                ELSE "ask_price")]
    /\ UNCHANGED engine_vars

CallSkewLine ==
    /\ calc = NoCall
    /\ \E strike \in QueryStrikes, line \in SkewLines, margin \in Margins :
           LET strikes == [i \in 1 .. Len(line) |-> line[i].index]
               ivs == [i \in 1 .. Len(line) |-> line[i].value]
           IN  calc' = [op |-> "_interpolate_skew_line", strike |-> strike,
                        strikes |-> strikes, ivs |-> ivs, margin |-> margin,
                        result |-> _interpolate_skew_line(strike, strikes,
                                                          ivs, margin)]
    /\ UNCHANGED engine_vars

CallTermStructure ==
    /\ calc = NoCall
    /\ \E tau \in TargetTenors, lo \in Tenors, hi \in Tenors,
          iv_lo \in TermIvs, iv_hi \in TermIvs :
           /\ lo < hi
           /\ LET taus == << lo, hi >>
                  ivs == << iv_lo, iv_hi >>
              IN  calc' = [op |-> "_interpolate_term_structure", tau |-> tau,
                           taus |-> taus, ivs |-> ivs,
                           result |-> _interpolate_term_structure(tau, taus,
                                                                  ivs)]
    /\ UNCHANGED engine_vars

\* A simulator that has not run, and a surface or position function about
\* to be called with arguments of its domain.
CalcInit ==
    /\ strategies = SellingAndBuying
    /\ chain_timeline = [t \in Times |-> << 120 >>]
    /\ timing_signal = << >>
    /\ calc = NoCall
    /\ Idle

CalcNext ==
    \/ CallValuation
    \/ CallDelta
    \/ CallTimelineRow
    \/ CallPriceByDelta
    \/ CallStrikeByPrice
    \/ CallInterpolateChain
    \/ CallGetPriceChain
    \/ CallSkewLine
    \/ CallTermStructure

CalcSpec == CalcInit /\ [][CalcNext]_vars

\* The simulator built with the rolling list, on a fully quoted table.
RollingInit ==
    /\ strategies = SellingAndRolling
    /\ chain_timeline \in BaseTables
    /\ timing_signal \in TimingSignals
    /\ calc = NoCall
    /\ Idle

RollingNext ==
    \/ \E s \in Starts, interval \in TimeSteps, capital \in Capitals :
          \E e \in s .. MaxEnd : Simulate(s, e, interval, capital)
    \/ IterateYield
    \/ IterateStop
    \/ CheckLiquidations
    \/ CheckExpirations
    \/ ExecuteStrategy
    \/ ExecuteRolling
    \/ LogStep

RollingSpec == RollingInit /\ [][RollingNext]_vars

\* The simulator built with the list whose second strategy returns a
\* non-finite size.
NonFiniteInit ==
    /\ strategies = SellingAndNonFinite
    /\ chain_timeline \in BaseTables
    /\ timing_signal \in TimingSignals
    /\ calc = NoCall
    /\ Idle

NonFiniteNext ==
    \/ \E s \in Starts, interval \in TimeSteps, capital \in Capitals :
          \E e \in s .. MaxEnd : Simulate(s, e, interval, capital)
    \/ IterateYield
    \/ IterateStop
    \/ CheckLiquidations
    \/ CheckExpirations
    \/ ExecuteStrategy
    \/ ExecuteNonFinite
    \/ LogStep

NonFiniteSpec == NonFiniteInit /\ [][NonFiniteNext]_vars

\* strategy.execute(...) of an OptionSellingStrategy; an exception leaves
\* simulate with no further statement executed.
ExecuteSelling ==
    /\ pc = "strategy"
    /\ strategies[signal + 1].kind = "option_selling"
    /\ \E outcome \in SurfaceOutcomes, collateral \in SellCollaterals :
          LET r == OptionSellingExecute(strategies[signal + 1], step, time,
                                        spot, primary, secondary, positions,
                                        chain, action_log, outcome,
                                        collateral)
          IN  IF r.ok
              THEN /\ primary' = r.value.primary
                   /\ secondary' = r.value.secondary
                   /\ positions' = r.value.positions
                   /\ strategy_actions' = r.value.actions
                   /\ pc' = AfterPhase("strategy")
              ELSE /\ pc' = "raised"
                   /\ UNCHANGED << primary, secondary, positions,
                                   strategy_actions >>
    /\ UNCHANGED << reset_calls, step, time, spot, signal, chain,
                    last_spot, last_chain,
                    liq_actions, exp_actions, action_log, timeline >>
    /\ args_unchanged /\ inputs_unchanged

\* The simulator built with the two OptionSellingStrategy objects.
IntervalInit ==
    /\ strategies = SellingAtIntervals
    /\ \/ chain_timeline \in QuoteTables /\ timing_signal \in BaseSignals
       \/ chain_timeline \in BaseTables /\ timing_signal \in TimingSignals
    /\ calc = NoCall
    /\ Idle

IntervalNext ==
    \/ \E s \in Starts, interval \in TimeSteps, capital \in Capitals :
          \E e \in s .. MaxEnd : Simulate(s, e, interval, capital)
    \/ IterateYield
    \/ IterateStop
    \/ CheckLiquidations
    \/ CheckExpirations
    \/ ExecuteSelling
    \/ LogStep

IntervalSpec == IntervalInit /\ [][IntervalNext]_vars

\* ================================================================= properties

KindRank(type) ==
    CASE type = "liquidation" -> 0
      [] type = "expiration"  -> 1
      [] OTHER                -> 2

\* C1: in the action log, the actions of one step appear as all
\* liquidations, then all expirations, then all strategy (buy/sell) actions,
\* and the step index never decreases along the log.
C1_LogOrder ==
    \A i, j \in 1 .. Len(action_log) :
        i < j =>
            /\ action_log[i].step <= action_log[j].step
            /\ action_log[i].step = action_log[j].step =>
                   KindRank(action_log[i].type) <= KindRank(action_log[j].type)

\* A log holding a liquidation, an expiration and a strategy action of one
\* step, after actions of an earlier step.
C1_Witness ==
    \E h, i, j, k \in 1 .. Len(action_log) :
        /\ h < i /\ i < j /\ j < k
        /\ action_log[h].step < action_log[i].step
        /\ action_log[i].step = action_log[j].step
        /\ action_log[j].step = action_log[k].step
        /\ action_log[i].type = "liquidation"
        /\ action_log[j].type = "expiration"
        /\ action_log[k].type \in {"buy", "sell"}

\* C2: the liquidation check removes exactly the positions with
\* is_liquidated(spot), keeps the others in order, leaves both balances
\* unchanged and emits one "liquidation" action with liquidity_change 0 per
\* removed position.
C2_LiquidationCheck ==
    [][pc = "liquidations" =>
        LET removed == SelectSeq(positions, LAMBDA p : is_liquidated(p, spot))
        IN  /\ positions' =
                   SelectSeq(positions, LAMBDA p : ~is_liquidated(p, spot))
            /\ primary' = primary
            /\ secondary' = secondary
            /\ Len(liq_actions') = Len(removed)
            /\ \A i \in 1 .. Len(removed) :
                   /\ liq_actions'[i].type = "liquidation"
                   /\ liq_actions'[i].liquidity_change = 0
                   /\ liq_actions'[i].position = removed[i]
                   /\ liq_actions'[i].step = step
    ]_vars

\* The liquidation check has removed a position and kept a short position
\* whose collateral exactly covers its delivery.
C2_Witness ==
    /\ pc = "expirations"
    /\ liq_actions # << >>
    /\ \E i \in 1 .. Len(positions) :
           /\ positions[i].size < 0
           /\ delivery(positions[i], spot) # 0
           /\ collateral_value(positions[i], spot) = -delivery(positions[i], spot)

\* delivery(spot) + collateral_value(spot), written out.
SettlementCredit(p, s) ==
    Max(0, IF p.type = "call" THEN s - p.strike ELSE p.strike - s) * p.size
        + p.collateral_primary + p.collateral_secondary * s

\* C3: the expiration check removes exactly the positions with
\* time >= maturity, credits delivery + collateral value of each to the
\* primary balance, leaves the secondary balance unchanged and emits one
\* "expiration" action per removed position carrying that credit.
C3_ExpirationCheck ==
    [][pc = "expirations" =>
        LET expired == SelectSeq(positions, LAMBDA p : time >= p.maturity)
        IN  /\ positions' =
                   SelectSeq(positions, LAMBDA p : ~(time >= p.maturity))
            /\ primary' = primary
                   + SumSeq([i \in 1 .. Len(expired) |->
                                SettlementCredit(expired[i], spot)])
            /\ secondary' = secondary
            /\ Len(exp_actions') = Len(expired)
            /\ \A i \in 1 .. Len(expired) :
                   /\ exp_actions'[i].type = "expiration"
                   /\ exp_actions'[i].liquidity_change =
                          SettlementCredit(expired[i], spot)
                   /\ exp_actions'[i].position = expired[i]
    ]_vars

\* The expiration check has settled, in one pass, an in-the-money position
\* and a position with collateral in both assets, while the secondary
\* balance is not zero.
C3_Witness ==
    /\ pc = "strategy"
    /\ \E i, j \in 1 .. Len(exp_actions) :
           /\ delivery(exp_actions[i].position, spot) # 0
           /\ exp_actions[i].liquidity_change # 0
           /\ exp_actions[j].position.collateral_primary # 0
           /\ exp_actions[j].position.collateral_secondary # 0
    /\ secondary # 0

\* Positions and spots over which the liquidation predicate is tabulated
\* (once, before the first run: it does not depend on the state).
PositionUniverse ==
    [type : {"call", "put"}, strike : Strikes, maturity : {0},
     size : {-1, 1}, collateral_primary : {-150, 0, 20},
     collateral_secondary : {0, 1}]

SpotUniverse == Spots \cup {DefaultSpot}

\* "short and collateral_primary + collateral_secondary*spot < -delivery",
\* written out.
ShortAndUnderCollateralised(p, s) ==
    /\ p.size < 0
    /\ p.collateral_primary + p.collateral_secondary * s
         < -(Max(0, IF p.type = "call" THEN s - p.strike ELSE p.strike - s)
               * p.size)

InStep == pc \in {"liquidations", "expirations", "strategy", "log"}

\* C4: is_liquidated(spot) holds exactly for short positions whose collateral
\* value is strictly below -delivery(spot); it is false for every long
\* position, and no liquidation action refers to a long position.
C4_LiquidatedOnlyShort ==
    /\ pc = "idle" =>
           \A p \in PositionUniverse, s \in SpotUniverse :
               /\ is_liquidated(p, s) <=> ShortAndUnderCollateralised(p, s)
               /\ p.size > 0 => ~is_liquidated(p, s)
    /\ \A i \in 1 .. Len(positions) :
           is_liquidated(positions[i], spot)
               <=> ShortAndUnderCollateralised(positions[i], spot)
    /\ \A i \in 1 .. Len(liq_actions) :
           ShortAndUnderCollateralised(liq_actions[i].position,
                                       liq_actions[i].spot)
    /\ \A i \in 1 .. Len(action_log) :
           action_log[i].type = "liquidation" =>
               ShortAndUnderCollateralised(action_log[i].position,
                                           action_log[i].spot)

\* The liquidation check has just removed a short position while a long
\* position was in the book and stayed.
C4_Witness ==
    /\ pc = "expirations"
    /\ liq_actions # << >>
    /\ \E i \in 1 .. Len(positions) : positions[i].size > 0

\* C5: the status handed to strategy.execute holds no position that is
\* liquidated at the step's spot or expired at the step's time, and the
\* timeline row of a step is the row of the status the strategy returned.
C5_StepOrder ==
    /\ pc = "strategy" =>
           \A i \in 1 .. Len(positions) :
               /\ ~ShortAndUnderCollateralised(positions[i], spot)
               /\ ~(time >= positions[i].maturity)
    /\ (pc = "iterate" /\ step > 0) \/ (pc = "done" /\ timeline # << >>) =>
           LET row == timeline[Len(timeline)].row
           IN  /\ timeline[Len(timeline)].index = step - 1
               /\ row.primary = primary
               /\ row.secondary = secondary
               /\ row.num_long_positions + row.num_short_positions
                      = Len(positions)
               /\ row.num_short_positions =
                      Cardinality({i \in 1 .. Len(positions) :
                                      positions[i].size < 0})

\* A step whose liquidation check, expiration check and strategy each
\* changed the book has just been logged.
C5_Witness ==
    /\ pc = "iterate"
    /\ step > 0
    /\ liq_actions # << >>
    /\ exp_actions # << >>
    /\ strategy_actions # << >>

HasData(t) == chain_timeline[t] # << >>

\* The steps up to step i whose timestamp has quote rows.
DataSteps(i) ==
    {j \in 0 .. i : HasData(start + j * time_step)}

MaxOf(S) == CHOOSE x \in S : \A y \in S : y <= x

\* The step of a run is in the fill-forward case: no rows at its timestamp,
\* rows at the timestamp of an earlier step.
FillForwardCase(i) ==
    /\ ~HasData(start + i * time_step)
    /\ DataSteps(i) # {}

CarriedTime(i) == start + MaxOf(DataSteps(i)) * time_step

\* C6: a step without quote rows, after a step with rows, runs with the
\* spot and the chain of the most recent earlier step that had rows; the
\* run goes on and the row of that step records the carried-forward spot.
C6_FillForward ==
    /\ InStep /\ FillForwardCase(step) =>
           /\ spot = chain_timeline[CarriedTime(step)][1]
           /\ chain = {CarriedTime(step)}
    /\ pc \in {"iterate", "done"} =>
           \A i \in 0 .. (step - 1) :
               \E r \in 1 .. Len(timeline) :
                   /\ timeline[r].index = i
                   /\ FillForwardCase(i) =>
                          timeline[r].row.spot
                              = chain_timeline[CarriedTime(i)][1]

\* A row was written for a step without rows that follows two steps with
\* rows of different spots.
C6_Witness ==
    /\ pc = "iterate"
    /\ \E r \in 1 .. Len(timeline) :
           LET i == timeline[r].index
           IN  /\ i >= 2
               /\ FillForwardCase(i)
               /\ HasData(start + (i - 1) * time_step)
               /\ HasData(start + (i - 2) * time_step)
               /\ chain_timeline[start + (i - 1) * time_step]
                      # chain_timeline[start + (i - 2) * time_step]

SignalTimes == {timing_signal[i].index : i \in 1 .. Len(timing_signal)}

SignalValue(t) ==
    (CHOOSE e \in {timing_signal[i] : i \in 1 .. Len(timing_signal)} :
        e.index = t).value

\* C7: the strategy index of a step is the signal at the step's timestamp
\* if there is one, else the signal at the latest earlier timestamp, else
\* 0; it is a valid index and the strategy with that index is executed.
C7_StrategySelection ==
    InStep =>
        LET earlier == {t \in SignalTimes : t < time}
            k == IF time \in SignalTimes THEN SignalValue(time)
                 ELSE IF earlier # {} THEN SignalValue(MaxOf(earlier))
                 ELSE 0
        IN  /\ signal = k
            /\ 0 <= signal /\ signal < Len(strategies)
            /\ pc = "log" =>
                   \A i \in 1 .. Len(strategy_actions) :
                       strategy_actions[i].type = strategies[k + 1].side

\* A strategy has traded at a timestamp without a signal, after two signal
\* timestamps whose values differ.
C7_Witness ==
    /\ pc = "log"
    /\ time \notin SignalTimes
    /\ strategy_actions # << >>
    /\ \E t, u \in SignalTimes :
           /\ t < u /\ u < time
           /\ SignalValue(t) # SignalValue(u)

Running == pc \notin {"idle", "done"}

\* C8: every call of simulate, the first one and one made after a finished
\* run, starts from (starting_capital, 0, no positions) with an empty action
\* log and an empty timeline, and has reset every strategy exactly once
\* before its first step; the count does not change during the run.
C8_FreshRun ==
    [][/\ (~Running /\ Running') =>
            /\ pc' = "iterate" /\ step' = 0
            /\ primary' = starting_capital'
            /\ secondary' = 0
            /\ positions' = << >>
            /\ action_log' = << >>
            /\ timeline' = << >>
            /\ \A k \in 0 .. (Len(strategies) - 1) : reset_calls'[k] = 1
       /\ Running => reset_calls' = reset_calls
    ]_vars

\* A run has finished leaving open positions, logged actions, timeline
\* rows and changed balances behind; simulate can be called again.
C8_Witness ==
    /\ pc = "done"
    /\ positions # << >>
    /\ action_log # << >>
    /\ timeline # << >>
    /\ primary # starting_capital
    /\ secondary # 0
    /\ \A k \in 0 .. (Len(strategies) - 1) : reset_calls[k] = 1

\* A step of a run in progress.
RunStep ==
    \/ IterateYield
    \/ IterateStop
    \/ CheckLiquidations
    \/ CheckExpirations
    \/ ExecuteStrategy
    \/ LogStep

\* C9 (state part): the timeline holds one row per completed step, labelled
\* 0, 1, ... in order, row i at timestamp start + i*time_step, all before
\* end; a run in progress can always move on, never passes
\* floor((end - start)/time_step) steps, and has exactly that many rows
\* when it has ended.
C9_RowsState ==
    /\ Running => ENABLED RunStep
    /\ Running \/ pc = "done" =>
           /\ Len(timeline) = step
           /\ step <= (end - start) \div time_step
           /\ pc = "done" => step = (end - start) \div time_step
           /\ \A r \in 1 .. Len(timeline) :
                  /\ timeline[r].index = r - 1
                  /\ timeline[r].row.timestamp = start + (r - 1) * time_step
                  /\ timeline[r].row.timestamp < end

\* C9: simulate ends after floor((end - start)/time_step) steps with one
\* row per step, in order, the end timestamp not simulated; a row once
\* written is not changed by a later step.
C9_Timeline ==
    /\ []C9_RowsState
    /\ [][Running /\ Running' =>
              /\ Len(timeline') >= Len(timeline)
              /\ \A r \in 1 .. Len(timeline) : timeline'[r] = timeline[r]
       ]_vars

\* A run with at least one step has ended, (end - start) not being a
\* multiple of time_step.
C9_Witness ==
    /\ pc = "done"
    /\ Len(timeline) >= 1
    /\ (end - start) % time_step # 0

\* The actions of the log up to step n whose type is in kinds and whose
\* position is on the given side (-1 short, 1 long).
LoggedUpTo(n, kinds, side) ==
    SelectSeq(action_log,
              LAMBDA a : /\ a.step <= n
                         /\ a.type \in kinds
                         /\ a.position.size * side > 0)

SumOver(acts, f(_)) == SumSeq([i \in 1 .. Len(acts) |-> f(acts[i].position)])

PosSize(p) == p.size
PosCollateralPrimary(p) == p.collateral_primary
PosCollateralSecondary(p) == p.collateral_secondary

\* C10: the position counts, sizes and collateral totals of every timeline
\* row are those of the positions opened by strategy actions up to that step
\* minus those removed by liquidation or expiration actions up to that
\* step: a removed position is counted neither in the row of the step that
\* removed it nor in a later row.
C10_RemovedNotCounted ==
    \A r \in 1 .. Len(timeline) :
        LET n == timeline[r].index
            row == timeline[r].row
            openedS == LoggedUpTo(n, {"buy", "sell"}, -1)
            removedS == LoggedUpTo(n, {"liquidation", "expiration"}, -1)
            openedL == LoggedUpTo(n, {"buy", "sell"}, 1)
            removedL == LoggedUpTo(n, {"liquidation", "expiration"}, 1)
        IN  /\ row.num_short_positions = Len(openedS) - Len(removedS)
            /\ row.num_long_positions = Len(openedL) - Len(removedL)
            /\ row.size_short_positions =
                   Abs(SumOver(openedS, PosSize) - SumOver(removedS, PosSize))
            /\ row.size_long_positions =
                   Abs(SumOver(openedL, PosSize) - SumOver(removedL, PosSize))
            /\ row.collateral_primary =
                   SumOver(openedS, PosCollateralPrimary)
                     + SumOver(openedL, PosCollateralPrimary)
                     - SumOver(removedS, PosCollateralPrimary)
                     - SumOver(removedL, PosCollateralPrimary)
            /\ row.collateral_secondary =
                   SumOver(openedS, PosCollateralSecondary)
                     + SumOver(openedL, PosCollateralSecondary)
                     - SumOver(removedS, PosCollateralSecondary)
                     - SumOver(removedL, PosCollateralSecondary)

\* A short put of strike 100, size -1 and zero collateral was liquidated at
\* spot 40 while a collateralised position stayed open; the rows of that
\* step and of the next step are written.
C10_Witness ==
    \E a \in 1 .. Len(action_log), r \in 1 .. Len(timeline) :
        /\ action_log[a].type = "liquidation"
        /\ action_log[a].spot = 40
        /\ action_log[a].position.type = "put"
        /\ action_log[a].position.size = -1
        /\ action_log[a].position.collateral_primary = 0
        /\ action_log[a].position.collateral_secondary = 0
        /\ timeline[r].index = action_log[a].step
        /\ timeline[r].row.num_short_positions = 1
        /\ r < Len(timeline)
        /\ timeline[r + 1].row.num_short_positions = 1

\* The same contract with the opposite size: what a rolling strategy
\* records when it buys a position back.
Negated(p) == [p EXCEPT !.size = -p.size]

\* A logged "buy" that takes back a position sold earlier in the log.
IsClosing(i) ==
    /\ action_log[i].type = "buy"
    /\ \E j \in 1 .. (i - 1) :
           /\ action_log[j].type = "sell"
           /\ action_log[j].position = Negated(action_log[i].position)

\* The logged strategy actions that introduced position x.
Introductions(x) ==
    {i \in 1 .. Len(action_log) :
        /\ action_log[i].type \in {"buy", "sell"}
        /\ ~IsClosing(i)
        /\ action_log[i].position = x}

\* The logged liquidations, expirations and buy-backs that removed x.
Removals(x) ==
    {i \in 1 .. Len(action_log) :
        \/ /\ action_log[i].type \in {"liquidation", "expiration"}
           /\ action_log[i].position = x
        \/ /\ IsClosing(i)
           /\ action_log[i].position = Negated(x)}

StepEnded == pc \in {"iterate", "done"}

\* C11: at the end of every step no position is twice in the list of open
\* positions, every open position was introduced by a logged buy or sell,
\* and every introduced position is open unless exactly one logged
\* liquidation, expiration or buy-back removed it after its introduction.
C11_BookMatchesLog ==
    StepEnded =>
        /\ \A i, j \in 1 .. Len(positions) :
               i # j => positions[i] # positions[j]
        /\ \A i \in 1 .. Len(positions) :
               /\ Introductions(positions[i]) # {}
               /\ Removals(positions[i]) = {}
        /\ \A a \in 1 .. Len(action_log) :
               LET x == action_log[a].position
                   open == \E i \in 1 .. Len(positions) : positions[i] = x
               IN  a \in Introductions(x) =>
                       /\ Cardinality(Introductions(x)) = 1
                       /\ ~open => /\ Cardinality(Removals(x)) = 1
                                   /\ \A r \in Removals(x) : r > a
        /\ \A a \in 1 .. Len(action_log) :
               action_log[a].type \in {"liquidation", "expiration"} =>
                   Introductions(action_log[a].position) # {}

\* A run has ended in which one position was bought back by the rolling
\* strategy and another was removed by the engine.
C11_Witness ==
    /\ pc = "done"
    /\ \E i \in 1 .. Len(action_log) : IsClosing(i)
    /\ \E i \in 1 .. Len(action_log) :
           action_log[i].type \in {"liquidation", "expiration"}

\* The field values position x was created with are on record: a buy or
\* sell action of the log, or of the step in progress, carries them.
AsCreated(x) ==
    \E a \in {(action_log \o strategy_actions)[i] :
                 i \in 1 .. Len(action_log \o strategy_actions)} :
        /\ a.type \in {"buy", "sell"}
        /\ a.position = x

\* The liquidation check, the expiration check or the timeline emission is
\* about to act.
EngineOperation == pc \in {"liquidations", "expirations", "log"}

IsPrefix(s, t) == Len(s) <= Len(t) /\ SubSeq(t, 1, Len(s)) = s

\* C12 (state part): every open position has the field values it was
\* created with.
C12_OpenAsCreated ==
    \A i \in 1 .. Len(positions) : AsCreated(positions[i])

\* C12: an engine operation only drops positions from the list, the
\* remaining ones keeping their order and fields; the position an engine
\* action records has the fields of the book entry it removed; and a
\* logged action, its position included, is never changed later in the run.
C12_PositionsImmutable ==
    /\ []C12_OpenAsCreated
    /\ [][/\ EngineOperation =>
               /\ positions' =
                      SelectSeq(positions,
                                LAMBDA p : \E j \in 1 .. Len(positions') :
                                              positions'[j] = p)
               /\ pc = "liquidations" =>
                      \A i \in 1 .. Len(liq_actions') :
                          /\ AsCreated(liq_actions'[i].position)
                          /\ \E j \in 1 .. Len(positions) :
                                 positions[j] = liq_actions'[i].position
               /\ pc = "expirations" =>
                      \A i \in 1 .. Len(exp_actions') :
                          /\ AsCreated(exp_actions'[i].position)
                          /\ \E j \in 1 .. Len(positions) :
                                 positions[j] = exp_actions'[i].position
          /\ Running /\ Running' => IsPrefix(action_log, action_log')
       ]_vars

\* The expiration check has settled a position that carried collateral in
\* both assets while another position stayed open, and the log already
\* holds the action that created the settled position.
C12_Witness ==
    /\ pc = "strategy"
    /\ positions # << >>
    /\ \E i \in 1 .. Len(exp_actions) :
           /\ exp_actions[i].position.collateral_primary # 0
           /\ exp_actions[i].position.collateral_secondary # 0
           /\ \E a \in 1 .. Len(action_log) :
                  /\ action_log[a].type = "sell"
                  /\ action_log[a].position = exp_actions[i].position

SkewLineCalled == calc.op = "_interpolate_skew_line"

\* v lies in the band [min(ivs), margin * max(ivs)].
InClampBand(v, ivs, margin) ==
    /\ SeqMin(ivs) <= v
    /\ v * 100 <= margin * SeqMax(ivs)

\* C16 as stated: for every queried strike, every non-empty set of observed
\* points and every margin, _interpolate_skew_line returns a value between
\* min(observed IVs) and margin * max(observed IVs).
C16_ClampAnyInput ==
    SkewLineCalled =>
        /\ calc.result.ok
        /\ InClampBand(calc.result.value, calc.ivs, calc.margin)

\* C16 amended: the same for every set of at least two observed points and
\* every margin with margin * max(observed IVs) >= min(observed IVs), in
\* particular every margin of at least 1.
C16_ClampInvariant ==
    (/\ SkewLineCalled
     /\ Len(calc.ivs) >= 2
     /\ calc.margin * SeqMax(calc.ivs) >= 100 * SeqMin(calc.ivs))
        => /\ calc.result.ok
           /\ InClampBand(calc.result.value, calc.ivs, calc.margin)

\* A strike above the quoted range was queried on a rising skew line with
\* margin 1.25, and the value returned is the upper end of the band, above
\* every observed IV.
C16_Witness ==
    /\ SkewLineCalled
    /\ Len(calc.ivs) >= 2
    /\ calc.margin = 125
    /\ calc.strike > calc.strikes[Len(calc.strikes)]
    /\ calc.ivs[Len(calc.ivs)] > calc.ivs[1]
    /\ calc.result.ok
    /\ calc.result.value * 100 = calc.margin * SeqMax(calc.ivs)
    /\ calc.result.value > SeqMax(calc.ivs)

TermStructureCalled == calc.op = "_interpolate_term_structure"

\* sqrt of (the total variances tau_i * iv_i^2 blended linearly in tenor,
\* divided by the target tenor), for two bracket points.
VarianceBlend(tau, taus, ivs) ==
    ISqrt(((taus[1] * ivs[1] * ivs[1] * (taus[2] - tau)
              + taus[2] * ivs[2] * ivs[2] * (tau - taus[1]))
             \div (taus[2] - taus[1])) \div tau)

\* C18: _interpolate_term_structure returns sqrt(variance / tenor) of the
\* total variance blended linearly in tenor; a target tenor inside the
\* bracket yields an IV between the two bracket IVs, and for IVs 0.5 at 7
\* days and 0.7 at 30 days the 14-day IV is strictly between 0.5 and 0.7.
C18_VarianceTime ==
    TermStructureCalled =>
        LET tau == calc.tau
            taus == calc.taus
            ivs == calc.ivs
            blended == taus[1] * ivs[1] * ivs[1] * (taus[2] - tau)
                         + taus[2] * ivs[2] * ivs[2] * (tau - taus[1])
        IN  /\ blended >= 0 =>
                   /\ calc.result.ok
                   /\ calc.result.value = VarianceBlend(tau, taus, ivs)
            /\ (taus[1] <= tau /\ tau <= taus[2]) =>
                   /\ calc.result.ok
                   /\ Min(ivs[1], ivs[2]) <= calc.result.value
                   /\ calc.result.value <= Max(ivs[1], ivs[2])
            /\ (taus = << 7, 30 >> /\ ivs = << 50, 70 >> /\ tau = 14) =>
                   /\ 50 < calc.result.value
                   /\ calc.result.value < 70

\* The 14-day volatility between 0.5 at 7 days and 0.7 at 30 days was
\* asked for and came out as 0.63, not the IV-linear 0.56.
C18_Witness ==
    /\ TermStructureCalled
    /\ calc.taus = << 7, 30 >>
    /\ calc.ivs = << 50, 70 >>
    /\ calc.tau = 14
    /\ calc.result = Ok(63)

ChainInterpolated == calc.op = "_interpolate_chain"

\* The maturities of a price table that carry at least two quotes.
QuotedTwice(table) ==
    {e \in {table[i].exp : i \in 1 .. Len(table)} :
        \E i, j \in 1 .. Len(table) :
            i # j /\ table[i].exp = e /\ table[j].exp = e}

\* C17: when the price table is empty or fewer than two of its maturities
\* carry at least two quotes, the IV of every strike and target expiration
\* is default_iv and the query does not fail.
C17_DefaultIv ==
    (ChainInterpolated /\ Cardinality(QuotedTwice(calc.price_chain)) < 2)
        => calc.result = Ok(SurfaceDefaultIv)

\* A table with two quotes at one maturity and single quotes at the two
\* others was queried and gave the default IV.
C17_Witness ==
    /\ ChainInterpolated
    /\ Cardinality(QuotedTwice(calc.price_chain)) = 1
    /\ Len(calc.price_chain) = 4
    /\ calc.result = Ok(SurfaceDefaultIv)

StrikeSearched == calc.op \in {"get_price_by_delta", "get_strike_by_price"}

\* C13: when the root-finder of get_price_by_delta or get_strike_by_price
\* has not converged, the call fails; it returns no (price, strike, iv)
\* built from the iterate the search stopped at.
C13_NonConvergenceFails ==
    (StrikeSearched /\ calc.solved.ier # 1) => ~calc.result.ok

\* A call of valuation or delta outside the grace window whose pricing
\* against the surface raised.
TimeLeft == calc.position.maturity - calc.time
SurfaceQuote ==
    get_price_by_strike(calc.chain[1], calc.position.strike, TimeLeft,
                        Flag(calc.position))
SurfaceFailed ==
    /\ calc.op \in {"valuation", "delta"}
    /\ TimeLeft > Grace
    /\ calc.chain # << >>
    /\ ~SurfaceQuote.ok

ClosedForm ==
    IF calc.op = "valuation"
    THEN calc.position.size
            * black_scholes(Flag(calc.position), calc.spot,
                            calc.position.strike, TimeLeft,
                            calc.position.iv_start)
    ELSE calc.position.size
            * delta_bsm(Flag(calc.position), calc.spot,
                        calc.position.strike, TimeLeft,
                        calc.position.iv_start)

\* C15: when pricing against the surface fails outside the grace window,
\* valuation and delta return the closed-form value or delta at the
\* position's starting IV times its size and print the error; the priced
\* columns of the timeline row are computed whatever the surface does.
C15_FallbackOnSurfaceFailure ==
    /\ SurfaceFailed =>
          /\ calc.result.out = Ok(ClosedForm)
          /\ calc.result.printed = << SurfaceQuote.error >>
    /\ calc.op = "_get_timeline_row" => calc.result.out.ok

\* A row whose two positions both fell back, in value and in delta.
C15_Witness ==
    /\ calc.op = "_get_timeline_row"
    /\ Len(calc.result.printed) = 4
    /\ calc.result.out.ok

NearExpiry ==
    /\ calc.op \in {"valuation", "delta"}
    /\ TimeLeft <= Grace

\* C19: inside the grace window, and after maturity, valuation returns
\* max(0, moneyness) * size whatever surface is passed, with moneyness
\* spot - strike for a call and strike - spot for a put; the result never
\* has the sign opposite to size.
C19_NearExpiryValuation ==
    (NearExpiry /\ calc.op = "valuation") =>
        LET p == calc.position
            m == IF p.type = "call" THEN calc.spot - p.strike
                 ELSE p.strike - calc.spot
        IN  /\ calc.result.out = Ok(100 * (Max(0, m) * p.size))
            /\ calc.result.printed = << >>
            /\ calc.result.out.value * p.size >= 0
            /\ (m > 0 => calc.result.out.value * p.size > 0)

\* An in-the-money short put valued at the edge of the grace window
\* against a surface whose pricing would fail.
C19_Witness ==
    /\ NearExpiry /\ calc.op = "valuation"
    /\ TimeLeft = Grace
    /\ calc.position.type = "put" /\ calc.position.size < 0
    /\ calc.position.strike > calc.spot
    /\ calc.chain # << >>
    /\ calc.result.out.value < 0

\* C20: inside the grace window delta is 0 when the position is not
\* strictly in the money, and otherwise size for a call and -size for a
\* put; the surface is not consulted.
C20_NearExpiryDelta ==
    (NearExpiry /\ calc.op = "delta") =>
        LET p == calc.position
            in_the_money == IF p.type = "call" THEN calc.spot > p.strike
                            ELSE p.strike > calc.spot
        IN  /\ calc.result.out =
                   Ok(IF ~in_the_money THEN 0
                      ELSE IF p.type = "call" THEN 100 * p.size
                      ELSE -(100 * p.size))
            /\ calc.result.printed = << >>
            /\ (delivery(p, calc.spot) = 0) <=> ~in_the_money

\* An in-the-money short put inside the grace window: delta is +2.
C20_Witness ==
    /\ NearExpiry /\ calc.op = "delta"
    /\ calc.position.type = "put" /\ calc.position.size = -2
    /\ calc.position.strike > calc.spot
    /\ calc.chain # << >>
    /\ calc.result.out = Ok(200)

HasNonFinite == \E i \in 1 .. Len(positions) : positions[i].size = NaN

\* C14: once a strategy has returned a status holding a position of
\* non-finite size the run stops: the status is never written to the
\* timeline and no later step is taken, so such a position is only ever
\* seen at the return of the strategy, before the row of that step.
C14_NonFiniteSizeAborts ==
    HasNonFinite =>
        /\ pc = "log"
        /\ \A i \in 1 .. Len(timeline) : timeline[i].index # step

RowPriced == calc.op = "_get_timeline_row"

\* The delta of the k-th open position of the priced row, in 1/100.
RowDelta(k) ==
    position_delta(calc.positions[k], calc.spot, calc.time, calc.chain)
        .out.value

\* C21: the total_delta of a timeline row is the secondary holdings plus
\* the sum of the open positions' deltas plus the sum of their secondary
\* collateral, and it is what SimulationStatus.total_delta returns for the
\* same spot, time and surface (all in units of 1/100).
C21_TotalDelta ==
    RowPriced =>
        /\ calc.result.out.ok
        /\ calc.result.out.value.total_delta =
              100 * calc.secondary + RowDelta(1) + RowDelta(2)
                  + 100 * (calc.positions[1].collateral_secondary
                              + calc.positions[2].collateral_secondary)
        /\ calc.result.out.value.total_delta =
              total_delta(calc.secondary, calc.positions, calc.spot,
                          calc.time, calc.chain).out.value

\* A row with secondary holdings, a short position posting secondary
\* collateral and a non-zero sum of deltas, priced on a surface.
C21_Witness ==
    /\ RowPriced
    /\ calc.secondary = 3
    /\ calc.positions[1].collateral_secondary = 2
    /\ calc.chain # << >>
    /\ calc.result.out.value.positions_delta # 0
    /\ calc.result.out.value.total_delta =
          calc.result.out.value.positions_delta + 500

\* The bracket the selection rule asks for among the eligible maturities
\* em (sorted ascending, at least two) and the target expiration exp.
TrueBracket(em, exp) ==
    LET below == {i \in 1 .. Len(em) : em[i] < exp}
        n == Cardinality(below)
    IN  IF n = Len(em) THEN << em[n - 1], em[n] >>
        ELSE IF n = 0 THEN << em[1], em[2] >>
        ELSE << em[n], em[n + 1] >>

\* C22: with at least two eligible maturities the selection succeeds and
\* takes the two nearest below a target beyond all of them, the two nearest
\* above a target before all of them, and otherwise the nearest below
\* together with the nearest at or above the target.
C22_BracketSelection ==
    (ChainInterpolated /\ Len(ExpMultiple(calc.price_chain)) >= 2) =>
        LET f == _get_strike_iv_interpolator(calc.price_chain, calc.exp,
                                             SurfaceDefaultIv)
        IN  /\ f.ok
            /\ << f.value.exp_lo, f.value.exp_hi >>
                  = TrueBracket(ExpMultiple(calc.price_chain), calc.exp)

\* The interpolator built for the queried table and target expiration.
BuiltInterpolator ==
    _get_strike_iv_interpolator(calc.price_chain, calc.exp, SurfaceDefaultIv)

\* Some quote of the two bracket maturities failed to invert.
BracketQuoteFailed ==
    /\ ChainInterpolated
    /\ BuiltInterpolator.ok
    /\ BuiltInterpolator.value.kind = "bracket"
    /\ \E i \in 1 .. Len(calc.price_chain) :
          /\ calc.price_chain[i].exp \in {BuiltInterpolator.value.exp_lo,
                                          BuiltInterpolator.value.exp_hi}
          /\ calc.price_chain[i].iv = << >>

\* C23: a quote whose inversion fails is left out of its skew line, which
\* keeps the quotes that inverted, and the query of the surface succeeds
\* whatever quotes of the two bracket maturities failed.
C23_DroppedQuotes ==
    BracketQuoteFailed =>
        /\ \A side \in {BuiltInterpolator.value.lo,
                         BuiltInterpolator.value.hi} :
              \A k \in 1 .. Len(side.strikes) :
                  \E i \in 1 .. Len(calc.price_chain) :
                      /\ calc.price_chain[i].K = side.strikes[k]
                      /\ calc.price_chain[i].iv = << side.ivs[k] >>
        /\ calc.result.ok

PriceChainBuilt == calc.op = "_get_price_chain"

\* The time value of a snapshot row at the side asked for, in units of
\* 1/100: its absolute price minus max(0, spot - K) for a call and
\* max(0, K - spot) for a put.
TimeValue(r) ==
    LET price == IF calc.side = "bid" THEN r.bid_price
                 ELSE IF calc.side = "mark" THEN r.mark_price
                 ELSE r.ask_price
    IN  price * calc.spot
            - 100 * Max(0, IF r.type = "call" THEN calc.spot - r.strike
                           ELSE r.strike - calc.spot)

\* C24: the price table of an (option_type, side) pair holds exactly the
\* snapshot rows of that type whose time value is positive, in their
\* order; every other row is discarded.
C24_PriceTableFilter ==
    PriceChainBuilt =>
        LET expected == SelectSeq(calc.chain,
                                  LAMBDA r : /\ r.type = calc.option_type
                                             /\ TimeValue(r) > 0)
        IN  /\ Len(calc.result) = Len(expected)
            /\ \A i \in 1 .. Len(expected) :
                  /\ calc.result[i].K = expected[i].strike
                  /\ calc.result[i].exp = expected[i].exp

\* The expiration actions recorded so far, in the log and in the step
\* under way.
ExpirationActions ==
    {action_log[i] : i \in {j \in 1 .. Len(action_log) :
                               action_log[j].type = "expiration"}}
        \cup {exp_actions[i] : i \in 1 .. Len(exp_actions)}

\* C25: a short position that reaches the expiration check covers its
\* delivery with its collateral at the spot of the step, and every
\* expiration action of a short position has liquidity_change >= 0.
C25_ShortSettlementNonNegative ==
    /\ pc = "expirations" =>
          \A i \in 1 .. Len(positions) :
              is_short(positions[i]) =>
                  collateral_value(positions[i], spot)
                      >= -delivery(positions[i], spot)
    /\ \A a \in ExpirationActions :
          a.position.size < 0 => a.liquidity_change >= 0

\* A short put expired in the money and its collateral covered the
\* delivery.
C25_Witness ==
    \E a \in ExpirationActions :
        /\ a.position.size < 0
        /\ delivery(a.position, a.spot) < 0
        /\ a.liquidity_change >= 0

\* The log the strategy is about to be called with holds actions of
\* earlier timestamps only, and none of the actions of the two checks of
\* this step.
LogOfEarlierSteps ==
    pc = "strategy" =>
        /\ \A i \in 1 .. Len(action_log) :
              /\ action_log[i].timestamp < time
              /\ action_log[i].step < step
        /\ \A i \in 1 .. Len(liq_actions) : liq_actions[i].step = step
        /\ \A i \in 1 .. Len(exp_actions) : exp_actions[i].step = step

\* The two checks and the strategy leave the log as it is; the actions of
\* the step are appended together once the strategy has returned.
LogAppendedAfterStrategy ==
    /\ (pc \in {"liquidations", "expirations", "strategy"})
          => (action_log' = action_log)
    /\ (pc = "log")
          => (/\ action_log' = action_log \o liq_actions \o exp_actions
                                     \o strategy_actions
              /\ step' = step + 1)

\* C26: the action log handed to strategy.execute at step n holds the
\* actions of steps 0..n-1 and nothing else: the liquidation and
\* expiration actions of step n are not in it, and they are appended, with
\* the strategy's, only after the strategy has returned.
C26_LogPassedToStrategy ==
    []LogOfEarlierSteps /\ [][LogAppendedAfterStrategy]_vars

\* The rolling strategy is about to read a log of earlier steps while an
\* expiration of this step waits to be logged.
C26_Witness ==
    /\ pc = "strategy"
    /\ strategies[signal + 1].kind = "rolling"
    /\ action_log # << >>
    /\ exp_actions # << >>

\* The rolling strategy has just returned.
RollingReturned ==
    pc = "log" /\ strategies[signal + 1].kind = "rolling"

\* The position p was opened by the strategy call that just returned.
OpenedNow(p) ==
    \E i \in 1 .. Len(strategy_actions) :
        /\ strategy_actions[i].type = "sell"
        /\ strategy_actions[i].position = p

\* C27: when RollingOptionSellingStrategy.execute returns, no position
\* that was open at entry with maturity - time <= time_to_cancel is still
\* open, whatever the number and arrangement of such positions.
C27_RollingClosesAll ==
    RollingReturned =>
        \A i \in 1 .. Len(positions) :
            (positions[i].maturity - time
                 <= strategies[signal + 1].time_to_cancel)
                => OpenedNow(positions[i])

\* The liquidation and expiration actions of the run so far: those of the
\* log and those of the checks of the step under way.
EngineRemovals ==
    SelectSeq(action_log,
              LAMBDA a : a.type \in {"liquidation", "expiration"})
        \o (IF pc \in {"expirations", "strategy", "log"}
            THEN liq_actions ELSE << >>)
        \o (IF pc \in {"strategy", "log"} THEN exp_actions ELSE << >>)

\* No position is the subject of two engine removal actions.
RemovedOnce ==
    \A i, j \in 1 .. Len(EngineRemovals) :
        EngineRemovals[i].position = EngineRemovals[j].position => i = j

\* Each check takes out of the list as many positions as it emits actions,
\* and the positions it reports are no longer in the list.
RemovalsCounted ==
    /\ (pc = "liquidations")
          => (/\ Len(positions) - Len(positions') = Len(liq_actions')
              /\ \A i \in 1 .. Len(liq_actions') :
                    \A k \in 1 .. Len(positions') :
                        positions'[k] # liq_actions'[i].position)
    /\ (pc = "expirations")
          => (/\ Len(positions) - Len(positions') = Len(exp_actions')
              /\ \A i \in 1 .. Len(exp_actions') :
                    \A k \in 1 .. Len(positions') :
                        positions'[k] # exp_actions'[i].position)

\* C28: over a run a position is the subject of at most one liquidation or
\* expiration action (never liquidated and expired, never liquidated or
\* expired twice), and in each step the engine removes as many positions
\* as it emits liquidation and expiration actions.
C28_RemovedAtMostOnce ==
    []RemovedOnce /\ [][RemovalsCounted]_vars

\* A run in which one position was liquidated and another one expired.
C28_Witness ==
    /\ pc = "done"
    /\ \E i, j \in 1 .. Len(action_log) :
          /\ action_log[i].type = "liquidation"
          /\ action_log[j].type = "expiration"
          /\ action_log[i].position # action_log[j].position

\* The steps of the run, up to the one under way, whose timestamp has rows.
StepsWithData ==
    {k \in 0 .. step :
        chain_timeline[StepTimestamp(start, k, time_step)] # << >>}

LatestStepWithData ==
    CHOOSE k \in StepsWithData : \A j \in StepsWithData : j <= k

\* The spot and the chain of the step under way are those of the latest
\* step with rows, or 1.0 and None when no step had rows yet.
SpotAndChainOfLatestData ==
    IF StepsWithData = {}
    THEN spot = DefaultSpot /\ chain = {}
    ELSE LET timestamp ==
                 StepTimestamp(start, LatestStepWithData, time_step)
         IN  /\ spot = Mean(chain_timeline[timestamp])
             /\ chain = {timestamp}

SellingExecuted == pc \in {"log", "raised"}

\* The log passed to the strategy has no buy or sell action, or its latest
\* one is at least trade_interval old.
TradeDue ==
    LET last == _get_last_strategy_action_time(action_log)
    IN  \/ last = << >>
        \/ time - last[1] >= strategies[signal + 1].trade_interval

\* The strategy of the step opened its short position.
SoldNow ==
    \E i \in 1 .. Len(positions) :
        /\ positions[i].size < 0
        /\ positions[i].type = strategies[signal + 1].option_type
        /\ positions[i].maturity
              = time + strategies[signal + 1].time_to_maturity

SellActions == SelectSeq(action_log, LAMBDA a : a.type = "sell")

\* C30: an OptionSellingStrategy opens a short position at a step exactly
\* when the log it is passed has no buy or sell action or the latest one is
\* at least trade_interval old (liquidations and expirations not counting);
\* two consecutive sell actions of a run are at least trade_interval apart.
C30_TradeInterval ==
    /\ SellingExecuted => (SoldNow <=> TradeDue)
    /\ \A i \in 1 .. (Len(SellActions) - 1) :
          SellActions[i + 1].timestamp - SellActions[i].timestamp
              >= strategies[signal + 1].trade_interval

====
